---- MODULE Spec2Model ----
(***************************************************************************)
(* Model of the per-session terminal mediation engine of comm.py:          *)
(* the byte classifier (check_sgr_osc / trim_sgr_osc), the output state    *)
(* machine (Comm.handle_ptm), the control packet handler (Comm.handle_cmd),*)
(* the demultiplexer loop (Comm.on_cmd_ptm), the outbound writer           *)
(* (Comm.bot_response / make_rate_limiter) and the input dispatcher        *)
(* (Comm.on_botmsg).                                                       *)
(*                                                                         *)
(* Byte strings are sequences of integers 0..255; Python indices are       *)
(* 0-based, so At(d, i) is d[i] of the source.  Text (str) is a sequence   *)
(* of code points.  Time is counted in units of 100 ms.                    *)
(***************************************************************************)
EXTENDS Integers, Sequences, FiniteSets, TLC

\* ------------------------------------------------------------------ bytes
NUL == 0
BEL == 7
BS  == 8
LF  == 10
CR  == 13
ESC == 27
DEL == 127
REPLACEMENT == 65533

\* TermState (enum)
BAD == "BAD"
IN_PROMPT == "IN_PROMPT"
IN_EXEC_DIRECT == "IN_EXEC_DIRECT"
IN_EXEC_TERMEMU == "IN_EXEC_TERMEMU"
TermState == {BAD, IN_PROMPT, IN_EXEC_DIRECT, IN_EXEC_TERMEMU}

\* FlushType (enum)
IF_NECESSARY == "IF_NECESSARY"
HIT_TIMER == "HIT_TIMER"
FORCED == "FORCED"

\* osaibot_response / osaibot_command
RESP_PROMPT == 1
RESP_BEGIN == 2
CMD_INPUT == 1
CMD_SIGNAL == 2

\* --------------------------------------------------------------- bounds
\* The 2000-character limit of one DIRECT message, scaled down so that the
\* model's short streams exceed it.
DirectLimit == 2
\* PTY reads handled in one behaviour of Spec.
MaxReads == 3
\* Control packets handled in one behaviour of Spec.
MaxCmds == 2

\* Bytes the shell writes to the PTY in Spec.
PtyBytes == {NUL, DEL, LF, CR, ESC, 91, 109, 97}
\* What one os.read(ptm_fd, 1024) returns in Spec: one byte (the finest
\* split of a stream into reads), or a whole SGR run.
ReadChunks == {<<b>> : b \in PtyBytes} \cup {<<ESC, 91, 109>>}
\* SpecInput: client messages read, control packets and PTY reads handled,
\* the texts of INPUT messages and the signal numbers of SIGNAL messages.
MaxMsgs == 2
MaxInputCmds == 2
MaxInputReads == 1
InputTexts == {<<233, LF>>}
Signums == {2}
\* make_rate_limiter(1.2): min_delay in units of 100 ms
MinDelay == 12
\* SpecRate: the clock stops at MaxTime; the upload tasks; the messages
\* on_cmd_ptm sends.
MaxTime == 26
NumUploads == 2
MaxDemuxMsgs == 2
\* SpecUpload: the size limit of an upload (8 MiB in the source), the
\* buffers and the open flags a command passes, and the writes of one open.
UploadLimit == 3
MaxUploadWrites == 3
UploadBufs == {<<>>, <<1>>, <<2, 3>>}
OpenFlags == {"O_WRONLY", "O_RDONLY"}
\* SpecRender: the size of the screen (80 x 24 in the source), the
\* characters of its cells, and the characters of a DISPLAY payload.
ScreenCols == 3
ScreenRows == 2
SPACE == 32
BAR == 124
DASH == 45
ScreenChars == {SPACE, 97}
\* SpecDemux: bytes the shell writes, packets it sends, and the most one
\* os.read returns (1024 in the source).
MaxWrites == 2
MaxPkts == 2
MaxRead == 1
DemuxBytes == {97, DEL}
\* control packet tags outside osaibot_response
MiscTags == {3}
\* Prompt payloads of RESP_PROMPT packets in Spec.
PromptPayloads == {<<ESC, 91, 109, 36, CR>>}

\* SpecSgr: complete sequences of each form check_sgr_osc knows, the bytes
\* that may follow a prefix of one, and the lengths of the text before the
\* ESC.
SgrForms ==
    {<<ESC, 91, 109>>, <<ESC, 91, 49, 59, 51, 109>>,
     <<ESC, 91, 63, 50, 48, 48, 52, 104>>, <<ESC, 91, 63, 50, 48, 48, 52, 108>>,
     <<ESC, 93, 82>>, <<ESC, 93, 80, 49, 50, 51, 52, 53, 54, 55>>,
     <<ESC, 93, 48, 59, 97, BEL>>, <<ESC, 93, 48, 59, 97, ESC, 92>>}
SgrTails == {97, 109, BEL, ESC, 92}
SgrPads == {0, 1}

\* SpecSplit: PTY reads and control packets handled before the escape run
\* arrives, what those reads return, the escape runs that check_sgr_osc
\* recognises (SGR, OSC ended by BEL, OSC ended by ESC \, bracketed paste)
\* and the plain texts that follow a run.
MaxSplitReads == 2
MaxSplitCmds == 1
SplitChunks == {<<97>>, <<CR>>, <<LF>>, <<ESC>>, <<ESC, 93>>}
SplitRuns ==
    {<<ESC, 91, 109>>, <<ESC, 93, 48, BEL>>,
     <<ESC, 93, 48, 59, 97, ESC, 92>>, <<ESC, 91, 63, 50, 48, 48, 52, 104>>}
PlainTexts == {<<>>, <<97>>, <<97, 97, 97>>, <<97, CR, LF, 97>>}

\* SpecTimer: the clock stops at MaxClock (units of 100 ms); PTY reads and
\* control packets handled, and what one read returns.
MaxClock == 10
MaxTimerReads == 2
MaxTimerCmds == 2
TimerChunks == {<<97>>, <<97, LF, 97>>, <<DEL>>}
\* timeout = self.last_ptm_flush + 0.5 - time.monotonic(), in 100 ms
FlushDelay == 5

\* SpecLife: lines the client sends on one connection, and Comm objects
\* handle_connection constructs on it.
MaxClientLines == 2
MaxSessions == 2
\* re.match(r'^[a-zA-Z0-9]{1,30}$', idname)
MaxIdLen == 30
\* idname values of INIT lines in SpecLife: valid, valid followed by a
\* newline, a path separator, one character too long.
IdNames == {<<97>>, <<97, LF>>, <<47>>, [i \in 1..(MaxIdLen + 1) |-> 97]}
\* Lines of the client: INIT, INPUT, SIGNAL, another type, an empty line,
\* text that is not JSON.
ClientLines ==
    {[type |-> "INIT", idname |-> <<97>>, reinit |-> TRUE]}
    \cup {[type |-> "INIT", idname |-> id, reinit |-> FALSE] : id \in IdNames}
    \cup {[type |-> t, idname |-> <<>>, reinit |-> FALSE] :
             t \in {"INPUT", "SIGNAL", "OTHER", "empty", "notjson"}}

\* ------------------------------------------------------ python helpers
At(d, i) == d[i + 1]
\* d[a:b] for 0 <= a, b
Slice(d, a, b) == SubSeq(d, a + 1, IF b > Len(d) THEN Len(d) ELSE b)
\* d[a:]
From(d, a) == SubSeq(d, a + 1, Len(d))
Min(a, b) == IF a < b THEN a ELSE b

\* bytes.find(b, start): the least index >= start holding b, or -1
Find(d, b, start) ==
    LET hits == {i \in start..(Len(d) - 1) : At(d, i) = b}
    IN IF hits = {} THEN -1 ELSE CHOOSE i \in hits : \A j \in hits : i <= j

\* bytes.rfind(b): the greatest index holding b, or -1
RFind(d, b) ==
    LET hits == {i \in 0..(Len(d) - 1) : At(d, i) = b}
    IN IF hits = {} THEN -1 ELSE CHOOSE i \in hits : \A j \in hits : i >= j

\* bytes.replace(b'\x00', b'')
RemoveNul(d) == SelectSeq(d, LAMBDA b : b # NUL)

Contains(d, b) == \E i \in 1..Len(d) : d[i] = b

\* One pass of bytes.replace(b'\r\n', b'\n'), left to right.
RECURSIVE ReplaceCrLfOnce(_)
ReplaceCrLfOnce(d) ==
    IF d = <<>> THEN <<>>
    ELSE IF Len(d) >= 2 /\ d[1] = CR /\ d[2] = LF
         THEN <<LF>> \o ReplaceCrLfOnce(SubSeq(d, 3, Len(d)))
         ELSE <<d[1]>> \o ReplaceCrLfOnce(Tail(d))

HasCrLf(d) == \E i \in 1..(Len(d) - 1) : d[i] = CR /\ d[i + 1] = LF

\* while b'\r\n' in data: data = data.replace(b'\r\n', b'\n')
RECURSIVE ReplaceCrLf(_)
ReplaceCrLf(d) == IF HasCrLf(d) THEN ReplaceCrLf(ReplaceCrLfOnce(d)) ELSE d

\* bytes.decode(errors='replace') for bytes below 0xE0: ASCII, two-byte
\* sequences (lead 0xC2..0xDF, continuation 0x80..0xBF), and U+FFFD for every
\* byte that starts no valid sequence.
RECURSIVE Decode(_)
Decode(d) ==
    IF d = <<>> THEN <<>>
    ELSE IF d[1] < 128 THEN <<d[1]>> \o Decode(Tail(d))
    ELSE IF /\ d[1] >= 194 /\ d[1] <= 223 /\ Len(d) >= 2
            /\ d[2] >= 128 /\ d[2] <= 191
         THEN <<(d[1] - 192) * 64 + (d[2] - 128)>> \o Decode(SubSeq(d, 3, Len(d)))
         ELSE <<REPLACEMENT>> \o Decode(Tail(d))

\* str.encode() (UTF-8) for code points below 0x800.
RECURSIVE Encode(_)
Encode(s) ==
    IF s = <<>> THEN <<>>
    ELSE IF s[1] < 128 THEN <<s[1]>> \o Encode(Tail(s))
         ELSE <<192 + (s[1] \div 64), 128 + (s[1] % 64)>> \o Encode(Tail(s))

\* ------------------------------------------------------- check_sgr_osc
Yes(e) == [res |-> "yes", end |-> e]
No == [res |-> "no", end |-> -1]
More == [res |-> "more", end |-> -1]     \* IndexError: not enough data

\* data[ind+2..ind+7] == b'?2004' + (h|l), evaluated left to right
PasteByteOk(k, b) ==
    CASE k = 2 -> b = 63
      [] k = 3 -> b = 50
      [] k = 4 -> b = 48
      [] k = 5 -> b = 48
      [] k = 6 -> b = 52
      [] OTHER -> b \in {104, 108}

RECURSIVE BracketedPaste(_, _, _)
BracketedPaste(d, ind, k) ==
    IF k > 7 THEN "yes"
    ELSE IF ind + k >= Len(d) THEN "more"
    ELSE IF PasteByteOk(k, At(d, ind + k)) THEN BracketedPaste(d, ind, k + 1)
    ELSE "no"

RECURSIVE CsiScan(_, _)
CsiScan(d, i) ==
    IF i >= Len(d) THEN More
    ELSE IF At(d, i) = 109 THEN Yes(i + 1)
    ELSE IF At(d, i) = 59 THEN CsiScan(d, i + 1)
    ELSE IF At(d, i) >= 48 /\ At(d, i) <= 57 THEN CsiScan(d, i + 1)
    ELSE No

RECURSIVE OscScan(_, _)
OscScan(d, i) ==
    IF i >= Len(d) THEN More
    ELSE IF At(d, i) = BEL THEN Yes(i + 1)
    ELSE IF At(d, i) = ESC
         THEN IF i + 1 >= Len(d) THEN More
              ELSE IF At(d, i + 1) = 92 THEN Yes(i + 2)
              ELSE OscScan(d, i + 1)
    ELSE OscScan(d, i + 1)

check_sgr_osc(d, ind) ==
    IF ind + 1 >= Len(d) THEN More
    ELSE IF At(d, ind + 1) = 91
         THEN LET bp == BracketedPaste(d, ind, 2)
              IN IF bp = "more" THEN More
                 ELSE IF bp = "yes" THEN Yes(ind + 8)
                 ELSE CsiScan(d, ind + 2)
    ELSE IF At(d, ind + 1) = 93
         THEN IF ind + 2 >= Len(d) THEN More
              ELSE IF At(d, ind + 2) = 80
                   THEN IF ind + 8 >= Len(d) THEN More ELSE Yes(ind + 9)
              ELSE IF At(d, ind + 2) = 82 THEN Yes(ind + 3)
              ELSE OscScan(d, ind + 3)
    ELSE No

\* trim_sgr_osc(data, assert_is): [err, data]; err is the exception raised
RECURSIVE TrimLoop(_, _, _)
TrimLoop(d, last_ind, assert_is) ==
    LET li == Find(d, ESC, last_ind + 1)
    IN IF li < 0 THEN [err |-> "none", data |-> d]
       ELSE LET r == check_sgr_osc(d, li)
            IN IF r.res = "more" THEN [err |-> "IndexError", data |-> d]
               ELSE IF assert_is /\ r.res # "yes"
                    THEN [err |-> "AssertionError", data |-> d]
               ELSE IF r.res = "yes"
                    THEN TrimLoop(Slice(d, 0, li) \o From(d, r.end), li - 1, assert_is)
               ELSE TrimLoop(d, li, assert_is)

trim_sgr_osc(d, assert_is) == TrimLoop(d, -1, assert_is)

\* ------------------------------------------------- prompt text clean-up
InRange(b, lo, hi) == b >= lo /\ b <= hi

RECURSIVE SkipClass(_, _, _, _)
SkipClass(d, i, lo, hi) ==
    IF i < Len(d) /\ InRange(At(d, i), lo, hi) THEN SkipClass(d, i + 1, lo, hi) ELSE i

\* Length of the match at index i of the pattern
\*   \x1B[@-Z\\-_] | [\x80-\x9A\x9C-\x9F] | (?:\x1B\[|\x9B)[0-?]*[ -/]*[@-~]
\* or 0 when it does not match there.
AnsiMatchLen(d, i) ==
    IF /\ At(d, i) = ESC /\ i + 1 < Len(d)
       /\ (InRange(At(d, i + 1), 64, 90) \/ InRange(At(d, i + 1), 92, 95))
    THEN 2
    ELSE IF InRange(At(d, i), 128, 154) \/ InRange(At(d, i), 156, 159)
    THEN 1
    ELSE LET plen == IF At(d, i) = ESC /\ i + 1 < Len(d) /\ At(d, i + 1) = 91 THEN 2
                     ELSE IF At(d, i) = 155 THEN 1 ELSE 0
             j == SkipClass(d, i + plen, 48, 63)
             k == SkipClass(d, j, 32, 47)
         IN IF plen > 0 /\ k < Len(d) /\ InRange(At(d, k), 64, 126)
            THEN k + 1 - i ELSE 0

\* re.sub(pattern, b'', prompt)
RECURSIVE AnsiSub(_, _)
AnsiSub(d, i) ==
    IF i >= Len(d) THEN <<>>
    ELSE LET m == AnsiMatchLen(d, i)
         IN IF m > 0 THEN AnsiSub(d, i + m) ELSE <<At(d, i)>> \o AnsiSub(d, i + 1)

\* prompt.translate(None, b'\x1b\r\b\x7f') is evaluated and its result
\* dropped: prompt itself stays as it was.
TranslateDropped(prompt) == prompt

\* The payload of the PROMPT message built from a RESP_PROMPT payload.
PromptText(payload) ==
    LET t == trim_sgr_osc(payload, FALSE)
        \* contextlib.suppress(IndexError): the assignment did not happen
        p1 == IF t.err = "IndexError" THEN payload ELSE t.data
    IN Decode(TranslateDropped(AnsiSub(p1, 0)))

\* ----------------------------------------------------------- handle_ptm
\* Variant: only b'\b' is looked for.
HasErase_BackspaceOnly(d) == Contains(d, BS)

\* b'\b' in data or b'\x7f' in data
HasErase(d) == Contains(d, BS) \/ Contains(d, DEL)

\* The scan for an escape that is not SGR/OSC: switch, or the index of an
\* escape that cannot be decided yet (cut), or neither.
RECURSIVE PromoScan(_, _)
PromoScan(d, last_ind) ==
    LET li == Find(d, ESC, last_ind + 1)
    IN IF li < 0 THEN [switch |-> FALSE, cut |-> -1]
       ELSE LET r == check_sgr_osc(d, li)
            IN IF r.res = "more" THEN [switch |-> FALSE, cut |-> li]
               ELSE IF r.res = "yes" THEN PromoScan(d, r.end - 1)
               ELSE [switch |-> TRUE, cut |-> -1]

\* data[-1] == b'\r' compares an int with a bytes object: never equal.
PyIntEqBytes(i, bs) == FALSE

\* while data and data[-1] == b'\r': move the last byte to pending
RECURSIVE PullTrailingCr(_, _)
PullTrailingCr(d, pend) ==
    IF d # <<>> /\ PyIntEqBytes(d[Len(d)], <<CR>>)
    THEN PullTrailingCr(SubSeq(d, 1, Len(d) - 1), <<d[Len(d)]>> \o pend)
    ELSE [data |-> d, pend |-> pend]

\* Variant: the length is never checked.
LimitSplit_Unlimited(d) == [head |-> d, tail |-> <<>>, over |-> FALSE]

\* if len(data) > 2000: keep data[:2000], the rest goes back to pending
LimitSplit(d) ==
    IF Len(d) > DirectLimit
    THEN [head |-> Slice(d, 0, DirectLimit), tail |-> From(d, DirectLimit), over |-> TRUE]
    ELSE [head |-> d, tail |-> <<>>, over |-> FALSE]

\* Variant: what follows the last linebreak is dropped.
LineSplit_DropTail(d, ft) ==
    LET nr == RFind(d, LF)
    IN IF ft # FORCED /\ nr >= 0 /\ nr # Len(d) - 1
       THEN [head |-> Slice(d, 0, nr + 1), tail |-> <<>>, split |-> TRUE]
       ELSE [head |-> d, tail |-> <<>>, split |-> FALSE]

\* Variant: the rest after the last linebreak is kept without a deadline.
LineSplit_NoDeadline(d, ft) ==
    LET nr == RFind(d, LF)
    IN IF ft # FORCED /\ nr >= 0 /\ nr # Len(d) - 1
       THEN [head |-> Slice(d, 0, nr + 1), tail |-> From(d, nr + 1), split |-> FALSE]
       ELSE [head |-> d, tail |-> <<>>, split |-> FALSE]

\* Variant: a forced flush stops at the last linebreak too.
LineSplit_Always(d, ft) ==
    LET nr == RFind(d, LF)
    IN IF nr >= 0 /\ nr # Len(d) - 1
       THEN [head |-> Slice(d, 0, nr + 1), tail |-> From(d, nr + 1), split |-> TRUE]
       ELSE [head |-> d, tail |-> <<>>, split |-> FALSE]

\* if not FORCED: split after the last linebreak that is not the last byte
LineSplit(d, ft) ==
    LET nr == RFind(d, LF)
    IN IF ft # FORCED /\ nr >= 0 /\ nr # Len(d) - 1
       THEN [head |-> Slice(d, 0, nr + 1), tail |-> From(d, nr + 1), split |-> TRUE]
       ELSE [head |-> d, tail |-> <<>>, split |-> FALSE]

DirectMsg(data) == [type |-> "DIRECT", payload |-> Decode(data)]

\* The DISPLAY payload is a rendering of the screen (cursor header and 24
\* rows); the screen is a function of the text fed to it since it was
\* created, and the model keeps that text as the screen.
DisplayMsg(screen) == [type |-> "DISPLAY", payload |-> screen]

\* te_stream.feed(data.decode(errors='replace')) if data and te_stream
\* Variant: the data is fed twice.
Feed_Twice(te, data) ==
    IF data # <<>> /\ te.on
    THEN [te EXCEPT !.fed = @ \o Decode(data) \o Decode(data)] ELSE te

Feed(te, data) ==
    IF data # <<>> /\ te.on THEN [te EXCEPT !.fed = @ \o Decode(data)] ELSE te

\* should_switch and the cut of an undecided escape, for the whole buffer
ShouldSwitch(data) ==
    IF HasErase(data) THEN [switch |-> TRUE, cut |-> -1] ELSE PromoScan(data, -1)

\* What one call of handle_ptm leaves behind: sw is the number of messages
\* the call had emitted when it switched to IN_EXEC_TERMEMU, or -1.
PtmRet(ts, pend, fw, out, sw, exc) ==
    [term_state |-> ts, pending_out |-> pend, has_flush_wait |-> fw,
     out |-> out, switchAt |-> sw, exc |-> exc]

\* The while True loop of handle_ptm, in the stages of its IN_EXEC_DIRECT
\* branch; each stage is given the results of the stages before it.
RECURSIVE PtmLoop(_, _, _, _, _, _, _, _)

\* if should_flush: send DIRECT; else: everything back to pending_out.  lim
\* and ln are the results of the length check and of the linebreak split,
\* pend is pending_out before them.
DirectFlush(ts, pend, lim, ln, ft, fw, out, sw, te) ==
    IF (ft # IF_NECESSARY) \/ lim.over
    THEN IF lim.over   \* has_pending_from_limit: another iteration
         THEN PtmLoop(ts, ln.tail \o lim.tail \o pend, <<>>, ft, fw \/ ln.split,
                      Append(out, DirectMsg(ln.head)), sw, te)
         ELSE PtmRet(ts, ln.tail \o lim.tail \o pend, fw \/ ln.split,
                     Append(out, DirectMsg(ln.head)), sw, "none")
    ELSE PtmRet(ts, ln.head \o ln.tail \o lim.tail \o pend, TRUE, out, sw, "none")

\* if data: the length check, then the linebreak split
DirectData(ts, pend, data, ft, fw, out, sw, te) ==
    IF data = <<>> THEN PtmRet(ts, pend, fw, out, sw, "none")
    ELSE DirectFlush(ts, pend, LimitSplit(data),
                     LineSplit(LimitSplit(data).head, ft), ft, fw, out, sw, te)

\* after trim_sgr_osc(data, True): the two line-ending loops
DirectTrimmed(ts, pend, tr, ft, fw, out, sw, te) ==
    IF tr.err # "none" THEN PtmRet(ts, pend, fw, out, sw, tr.err)
    ELSE DirectData(ts, PullTrailingCr(tr.data, pend).pend,
                    ReplaceCrLf(PullTrailingCr(tr.data, pend).data),
                    ft, fw, out, sw, te)

\* Variant: the escape that cannot be decided yet is thrown away.
UndecidedTail_Dropped(data, ind) == <<>>

\* except IndexError: data[last_ind:] goes to pending_out for the next call
UndecidedTail(data, ind) == From(data, ind)

\* after the scan for a reason to switch
DirectScanned(ts, data, scan, ft, fw, out, sw, te) ==
    IF scan.switch
    THEN PtmLoop(IN_EXEC_TERMEMU, <<>>, <<>>, ft, fw, out, Len(out), te)
    ELSE IF scan.cut >= 0
    THEN DirectTrimmed(ts, UndecidedTail(data, scan.cut),
                       trim_sgr_osc(Slice(data, 0, scan.cut), TRUE), ft, fw, out, sw, te)
    ELSE DirectTrimmed(ts, <<>>, trim_sgr_osc(data, TRUE), ft, fw, out, sw, te)

\* Variant: outside an execution the data is kept.
IdlePending_Kept(data) == data

\* else: self.pending_out = b''
IdlePending(data) == <<>>

PtmLoop(ts, pend0, data0, ft, fw, out, sw, te) ==
    IF ts = IN_EXEC_DIRECT
    THEN DirectScanned(ts, pend0 \o data0, ShouldSwitch(pend0 \o data0),
                       ft, fw, out, sw, te)
    ELSE IF ts = IN_EXEC_TERMEMU
    THEN IF ft # IF_NECESSARY
         THEN PtmRet(ts, <<>>, fw, Append(out, DisplayMsg(te.fed)), sw, "none")
         ELSE PtmRet(ts, <<>>, TRUE, out, sw, "none")
    ELSE PtmRet(ts, IdlePending(pend0 \o data0), fw, out, sw, "none")

\* The end of handle_ptm: self.has_flush_wait is assigned after the loop
\* only, so an exception leaves it as it was.
PtmDone(c, te1, r) ==
    [r EXCEPT !.has_flush_wait = IF r.exc = "none" THEN @ ELSE c.has_flush_wait]
        @@ [te |-> te1]

\* handle_ptm(data, flushtype) on the session state c = [term_state,
\* pending_out, has_flush_wait, te]: the new state, the messages handed to
\* bot_response in order (out), and the exception raised, if any.
HandlePtm(c, rawdata, ft) ==
    PtmDone(c, Feed(c.te, RemoveNul(rawdata)),
            PtmLoop(c.term_state, c.pending_out, RemoveNul(rawdata), ft, FALSE, <<>>, -1,
                    Feed(c.te, RemoveNul(rawdata))))

\* ----------------------------------------------------------- handle_cmd
PromptMsg(payload) == [type |-> "PROMPT", payload |-> PromptText(payload)]

\* Variant: the PROMPT message is sent before the drain.
PromptSequence_PromptFirst(drained, msg) == <<msg>> \o drained

\* The messages of one RESP_PROMPT handling in send order: those of the
\* forced drain, then the PROMPT message.
PromptSequence(drained, msg) == drained \o <<msg>>

\* pyte.Screen(80, 24) and its pyte.Stream
FreshScreen == [on |-> TRUE, fed |-> <<>>]
NoScreen == [on |-> FALSE, fed |-> <<>>]

\* Variant: RESP_PROMPT leaves the session executing.
ModeAfterPrompt_Direct == IN_EXEC_DIRECT

\* self.term_state = TermState.IN_PROMPT
ModeAfterPrompt == IN_PROMPT

\* Variant: RESP_BEGIN starts in the snapshot mode.
ModeAfterBegin_Termemu == IN_EXEC_TERMEMU

\* self.term_state = TermState.IN_EXEC_DIRECT
ModeAfterBegin == IN_EXEC_DIRECT

\* RESP_PROMPT after the forced drain r: the assert, the mode change, the
\* cancellation of exec_drain, the PROMPT message.
PromptHandled(r, payload) ==
    IF r.exc # "none"
    THEN [r EXCEPT !.switchAt = -1] @@ [cancel |-> FALSE]
    ELSE IF r.has_flush_wait
    THEN [r EXCEPT !.exc = "AssertionError", !.switchAt = -1] @@ [cancel |-> FALSE]
    ELSE [r EXCEPT !.term_state = ModeAfterPrompt, !.switchAt = -1,
                   !.out = PromptSequence(@, PromptMsg(payload))]
         @@ [cancel |-> TRUE]

\* handle_cmd(cmd, payload): new state, messages, whether exec_drain was
\* cancelled, exception.
HandleCmd(c, cmd, payload) ==
    IF cmd = RESP_PROMPT THEN PromptHandled(HandlePtm(c, <<>>, FORCED), payload)
    ELSE IF cmd = RESP_BEGIN THEN
        [term_state |-> ModeAfterBegin, pending_out |-> c.pending_out,
         has_flush_wait |-> c.has_flush_wait, te |-> FreshScreen,
         out |-> <<>>, switchAt |-> -1, exc |-> "none", cancel |-> FALSE]
    ELSE
        [term_state |-> c.term_state, pending_out |-> c.pending_out,
         has_flush_wait |-> c.has_flush_wait, te |-> c.te,
         out |-> <<>>, switchAt |-> -1, exc |-> "AssertionError", cancel |-> FALSE]

\* ================================================================ state
VARIABLES
    \* Comm: the output state machine
    term_state, pending_out, has_flush_wait, te,
    \* messages handed to bot_response, in order, each with the number of
    \* RESP_BEGIN packets handled before it (ep) and the flush type of the
    \* handle_ptm call that emitted it (ft)
    sent,
    \* the exception that ended on_cmd_ptm, or "none"
    exc,
    \* history of the current execution episode
    \* ep: RESP_BEGIN packets handled; rawB: bytes read from the PTY since
    \* the last RESP_BEGIN while executing; epMulti: that RESP_BEGIN came
    \* while executing; epDone: a RESP_PROMPT ended the episode;
    \* promoAt: Len(sent) at the latest switch to IN_EXEC_TERMEMU, or -1;
    \* promoLive: no control packet handled since that switch;
    \* promoBegun: a RESP_BEGIN was handled before the RESP_PROMPT after it
    ep, rawB, epMulti, epDone, promoAt, promoLive, promoBegun,
    \* since the latest PROMPT message (or the start of the session):
    \* nPromo: switches from IN_EXEC_DIRECT to IN_EXEC_TERMEMU;
    \* nBegin: RESP_BEGIN packets handled
    nPromo, nBegin,
    \* Spec: events handled so far
    nReads, nCmds,
    \* SpecDemux: the shell's side (bytes written to the PTY slave and not yet
    \* readable on the master, bytes readable, packets readable, counters)
    ptyFlight, ptyQ, cmdQ, shellMode, nWritten, nPkts,
    \* on_cmd_ptm: the two reader tasks, the tasks of `done`, the position
    \* in the loop, and the history of what the loop handled
    ptmTask, cmdTask, inDone, pc, iter, ptmHandled, cmdLog, tieLog,
    \* how many reader tasks of each source are in next_cmd_ptm or in `done`
    \* and not handled yet; ptmTask and cmdTask stand for the tasks of their
    \* source as long as there is one of each
    nTasks,
    \* on_botmsg: write tasks, the two locks, what reached each destination
    wtasks, holder, lockq, outlog, msgLog, promptCount, botExc,
    \* self.killer: "pending", "cancelled", or the exception set on it
    killer,
    \* bot_response: the clock, last_ts of the rate limiter, the state of
    \* each sender and the time its sleep ends, bot_response_lock (holder
    \* and waiters), and the time and sender of every write to the client
    now, last_ts, sst, swake, brlHolder, brlWaiters, wlog, nDemuxMsgs,
    \* SpecSplit: the position in the experiment (before the run, after its
    \* first part, after its second part), the run R, the text T and the
    \* split point k, and what handle_ptm does with R + T read at once in
    \* the state the first part was read in
    splitPc, splitIn, twin,
    \* SpecTimer: last_ptm_flush; the time at which the asyncio.wait of the
    \* loop times out (-1: timeout=None); the messages the running handler
    \* still has to get through bot_response; hitAt is the time of the
    \* latest handle_ptm(b'', HIT_TIMER) if no PTY read and no control packet
    \* was handled since, and -1 otherwise
    last_ptm_flush, timeout, sendq, hitAt

hvars == <<term_state, pending_out, has_flush_wait, te, sent, exc,
           ep, rawB, epMulti, epDone, promoAt, promoLive, promoBegun,
           nPromo, nBegin>>
cvars == <<nReads, nCmds>>
rvars == <<now, last_ts, sst, swake, brlHolder, brlWaiters, wlog, nDemuxMsgs>>
svars == <<ptyFlight, ptyQ, cmdQ, shellMode, nWritten, nPkts>>
dvars == <<ptmTask, cmdTask, inDone, pc, iter, ptmHandled, cmdLog, tieLog, nTasks>>
ivars == <<wtasks, holder, lockq, outlog, msgLog, promptCount, botExc, killer>>

\* Session lifecycle (handle_connection, Comm._run)
VARIABLES
    \* lpc: where handle_connection / _run stands; lexc: the exception that
    \* is propagating, or "none"
    lpc, lexc,
    \* descriptors of the session ("none", "open", "closed"), how often each
    \* was closed, the children ("none", "running", "exited"), the signal
    \* sent to each, and the tasks ("none", "pending", "cancelled", "done",
    \* or the exception the task ended with)
    fd, closes, child, sig, ltasks,
    \* the tasks of tasks | self.next_cmd_ptm that the finally block of _run
    \* has still to cancel and await
    tdLeft,
    \* the client: lines sent and not yet read, half-close seen by
    \* readline, messages received since the session began, lines sent
    clientIn, clientEof, clientOut, nSent,
    \* <runroot>/<idname> exists; Comm objects constructed
    runExists, nComm,
    \* per identity: the overlay is mounted at <run>/root, and a command has
    \* written to it since it was made; start: the identity and reinit of the
    \* INIT line of the session, whether its directory existed then, and
    \* whether the session has remade it
    overlay, start,
    \* discord_upload_callbacks: the sessions (numbered as they are
    \* constructed) that have an entry
    registry,
    \* history: INIT lines that passed the handshake, directory and mount
    \* operations, forks, the step at which setup failed, whether the
    \* session reached the launch of its tasks, whether the client has been
    \* silent since the latest restart, and the exception other than
    \* RestartException that ended a session, with nComm and nFork at that
    \* time (ended)
    accepted, fsOps, nFork, failedAt, launched, silent, ended

lvars == <<lpc, lexc, fd, closes, child, sig, ltasks, tdLeft, clientIn, clientEof,
           clientOut, nSent, runExists, overlay, start, registry, nComm, accepted,
           fsOps, nFork,
           failedAt, launched, silent, ended>>

tvars == <<splitPc, splitIn, twin>>
kvars == <<last_ptm_flush, timeout, sendq, hitAt>>

VARIABLES
    \* the upload file of the session: ufile.st is "none", "open", "closing"
    \* (close(2) returned, the release request is queued) or "released";
    \* data and efbig_hit are the fields of the DiscordUploaderFile
    ufile,
    \* the FUSE worker: "idle", or "rel_call" between the membership test of
    \* release and the lookup; regLock: discord_upload_callbacks_lock is held
    fpc, regLock,
    \* the ready queue of the event loop
    loopq,
    \* the shell: "exec" while the command runs, "prompted" once it has
    \* sent RESP_PROMPT; the kind of message on_cmd_ptm sends
    cmdSt, msgKind,
    \* history: the writes with their results, the data handed to upload_cb,
    \* whether the session was registered when release finished, the
    \* accesses to the registry, a lookup of a missing entry
    wres, upl, regAtRelease, acclog, keyErr

\* SpecRender: the screen of the emulator (cursor and rows of characters)
\* and the DISPLAY payloads made from it
VARIABLES rscreen, rout

\* SpecKill: the task of upload_cb ("none", "pending", "done", "cancelled"
\* or the exception it ended with), where _run stands ("live": in
\* asyncio.gather; "finally"; "ended"), and the history of the tasks whose
\* coroutine raised
VARIABLES upTask, sess, wfailed

\* SpecSgr: the arguments of one call of check_sgr_osc and what it returned
VARIABLES sgrIn, sgrOut

zvars == <<sgrIn, sgrOut>>
qvars == <<upTask, sess, wfailed, zvars>>
gvars == <<rscreen, rout, qvars>>
uvars == <<ufile, fpc, regLock, loopq, cmdSt, msgKind, wres, upl, regAtRelease,
           acclog, keyErr, gvars>>

Exec == {IN_EXEC_DIRECT, IN_EXEC_TERMEMU}
Core == [term_state |-> term_state, pending_out |-> pending_out,
         has_flush_wait |-> has_flush_wait, te |-> te]

Tag(out, e, ft) == [i \in 1..Len(out) |-> out[i] @@ [ep |-> e, ft |-> ft]]

\* on_cmd_ptm before its loop: pending_out, te_screen, te_stream,
\* has_flush_wait; _run sets term_state = BAD before starting it.
HInit ==
    /\ term_state = BAD
    /\ pending_out = <<>>
    /\ has_flush_wait = FALSE
    /\ te = NoScreen
    /\ sent = <<>>
    /\ exc = "none"
    /\ ep = 0 /\ rawB = <<>> /\ epMulti = FALSE /\ epDone = FALSE
    /\ promoAt = -1 /\ promoLive = FALSE /\ promoBegun = FALSE
    /\ nPromo = 0 /\ nBegin = 0

\* ------------------------------------------------ write tasks and locks
Dests == {"cmd", "ptm"}
Live(t) == t.st \in {"new", "waiting", "writing"}

\* asyncio.Lock.release: the first waiter becomes the holder
Release(tasks, hold, q, dest) ==
    IF q[dest] = <<>>
    THEN [tasks |-> tasks, holder |-> [hold EXCEPT ![dest] = 0], lockq |-> q]
    ELSE [tasks |-> [tasks EXCEPT ![Head(q[dest])].st = "writing"],
          holder |-> [hold EXCEPT ![dest] = Head(q[dest])],
          lockq |-> [q EXCEPT ![dest] = Tail(@)]]

\* Variant: nothing is cancelled.
CancelTasks_None(tasks) == tasks

\* for task in self.exec_drain: if not task.done(): task.cancel()
CancelTasks(tasks) ==
    [i \in 1..Len(tasks) |->
        IF tasks[i].exec /\ Live(tasks[i])
        THEN [tasks[i] EXCEPT !.st = "cancelled"] ELSE tasks[i]]

\* The cancelled tasks leave the locks: a cancelled waiter is dropped from
\* the queue, a cancelled holder releases.
RECURSIVE SettleLocks(_, _, _, _)
SettleLocks(tasks, hold, q, ds) ==
    IF ds = {} THEN [tasks |-> tasks, holder |-> hold, lockq |-> q]
    ELSE LET d == CHOOSE x \in ds : TRUE
             q1 == [q EXCEPT ![d] = SelectSeq(@, LAMBDA i : Live(tasks[i]))]
             r == IF hold[d] # 0 /\ ~Live(tasks[hold[d]])
                  THEN Release(tasks, hold, q1, d)
                  ELSE [tasks |-> tasks, holder |-> hold, lockq |-> q1]
         IN SettleLocks(r.tasks, r.holder, r.lockq, ds \ {d})

\* Variant: a cancellation is reported to self.killer like a failure.
InnerEnds_CancelReported(ev, k) ==
    IF ev = "done" THEN [task |-> "done", killer |-> k]
    ELSE IF k = "pending" THEN [task |-> "done", killer |-> ev]
    ELSE [task |-> "InvalidStateError", killer |-> k]

\* inner() of make_write_task and _upload_cb_inner, once the coroutine they
\* await has ended with ev ("done": it returned).  except CancelledError:
\* pass; except BaseException as e: self.killer.set_exception(e), which
\* raises InvalidStateError if the future is not pending.  The result is
\* how the task ends and what self.killer is.
InnerEnds(ev, k) ==
    IF ev \in {"done", "CancelledError"} THEN [task |-> "done", killer |-> k]
    ELSE IF k = "pending" THEN [task |-> "done", killer |-> ev]
    ELSE [task |-> "InvalidStateError", killer |-> k]

\* self.killer after task.cancel() on the tasks of S: a task that has run
\* its first step gets CancelledError inside the try of inner(); one that
\* has not is ended before it enters inner()
KillerAfterCancel(tasks, S, k) ==
    IF \E i \in S : tasks[i].st \in {"waiting", "writing"}
    THEN InnerEnds("CancelledError", k).killer ELSE k

CancelExecDrain ==
    \E r \in {SettleLocks(CancelTasks(wtasks), holder, lockq, Dests)} :
       /\ wtasks' = r.tasks
       /\ holder' = r.holder
       /\ lockq' = r.lockq
       /\ killer' = KillerAfterCancel(wtasks, {i \in 1..Len(wtasks) : wtasks[i].exec},
                                      killer)

\* -------------------------------------------------------------- on_botmsg
\* payload.replace('\n', '\r')
NlToCr_Unchanged(text) == text

NlToCr(text) == [i \in 1..Len(text) |-> IF text[i] = LF THEN CR ELSE text[i]]

\* struct.pack('=i', n): four bytes, two's complement, least significant
\* first (the byte order of the machines the program runs on)
PackInt32(n) ==
    LET m == IF n < 0 THEN (n + 2147483647) + 1 ELSE n
    IN <<m % 256, (m \div 256) % 256, (m \div 65536) % 256,
         (m \div 16777216) + (IF n < 0 THEN 128 ELSE 0)>>

NoWrite == [dest |-> "none", exec |-> FALSE, data |-> <<>>]

\* data['type'] == 'INPUT': the write registered in mode, if any
InputWrite(mode, text) ==
    IF mode = IN_PROMPT
    THEN [dest |-> "cmd", exec |-> FALSE, data |-> <<CMD_INPUT>> \o Encode(text)]
    ELSE IF mode \in Exec
    THEN [dest |-> "ptm", exec |-> TRUE, data |-> Encode(NlToCr(text))]
    ELSE NoWrite

\* data['type'] == 'SIGNAL'
SignalWrite(mode, signum) ==
    IF mode \in Exec
    THEN [dest |-> "cmd", exec |-> TRUE, data |-> <<CMD_SIGNAL>> \o PackInt32(signum)]
    ELSE NoWrite

\* make_write_task(lock, exec_drain, coroutine): the task is created; born
\* is the number of RESP_PROMPT packets handled so far
make_write_task(tasks, w) ==
    IF w.dest = "none" THEN tasks
    ELSE Append(tasks, w @@ [pos |-> 0, st |-> "new", born |-> promptCount])

\* Variant: the task does not wait for the lock.
Acquire_NoWait(tasks, hold, q, i) ==
    [tasks |-> [tasks EXCEPT ![i].st = "writing"],
     holder |-> [hold EXCEPT ![tasks[i].dest] = i], lockq |-> q]

\* async with lock, entered by task i: it gets the lock if nobody holds it
\* and nobody waits for it, and waits in line otherwise
Acquire(tasks, hold, q, i) ==
    IF hold[tasks[i].dest] = 0 /\ q[tasks[i].dest] = <<>>
    THEN [tasks |-> [tasks EXCEPT ![i].st = "writing"],
          holder |-> [hold EXCEPT ![tasks[i].dest] = i], lockq |-> q]
    ELSE [tasks |-> [tasks EXCEPT ![i].st = "waiting"],
          holder |-> hold, lockq |-> [q EXCEPT ![tasks[i].dest] = Append(@, i)]]

\* ------------------------------------------- the handlers as actions
\* await self.handle_ptm(data, flushtype)
ApplyPtm(data, ft) ==
    \E r \in {HandlePtm(Core, data, ft)} :
       /\ term_state' = r.term_state
       /\ pending_out' = r.pending_out
       /\ has_flush_wait' = r.has_flush_wait
       /\ te' = r.te
       /\ sent' = sent \o Tag(r.out, ep, ft)
       /\ exc' = r.exc
       /\ rawB' = IF term_state \in Exec THEN rawB \o data ELSE rawB
       /\ promoAt' = IF r.switchAt >= 0 THEN Len(sent) + r.switchAt ELSE promoAt
       /\ promoLive' = (promoLive \/ r.switchAt >= 0)
       /\ promoBegun' = (promoBegun /\ r.switchAt < 0)
       /\ nPromo' = IF r.switchAt >= 0 THEN nPromo + 1 ELSE nPromo
       /\ UNCHANGED <<ep, epMulti, epDone, nBegin>>

\* await self.handle_cmd(cmd, payload)
ApplyCmd(cmd, payload) ==
    \E r \in {HandleCmd(Core, cmd, payload)} :
    LET prompted == cmd = RESP_PROMPT /\ r.exc = "none"
        begun == cmd = RESP_BEGIN
    IN /\ term_state' = r.term_state
       /\ pending_out' = r.pending_out
       /\ has_flush_wait' = r.has_flush_wait
       /\ te' = r.te
       /\ sent' = sent \o Tag(r.out, ep, FORCED)
       /\ exc' = r.exc
       /\ ep' = IF begun THEN ep + 1 ELSE ep
       /\ rawB' = IF begun THEN <<>> ELSE rawB
       /\ epMulti' = IF begun THEN term_state \in Exec ELSE epMulti
       /\ epDone' = IF begun THEN FALSE
                    ELSE IF prompted /\ term_state \in Exec THEN TRUE ELSE epDone
       /\ promoLive' = IF prompted \/ begun THEN FALSE ELSE promoLive
       /\ promoBegun' = (promoBegun \/ (begun /\ promoLive))
       /\ UNCHANGED promoAt
       /\ nPromo' = IF prompted THEN 0 ELSE nPromo
       /\ nBegin' = IF prompted THEN 0 ELSE IF begun THEN nBegin + 1 ELSE nBegin
       /\ promptCount' = IF r.cancel THEN promptCount + 1 ELSE promptCount
       /\ IF r.cancel THEN CancelExecDrain ELSE UNCHANGED <<wtasks, holder, lockq, killer>>
       /\ UNCHANGED <<outlog, msgLog, botExc, rvars, lvars, tvars, uvars>>

IInit ==
    /\ wtasks = <<>>
    /\ holder = [d \in Dests |-> 0]
    /\ lockq = [d \in Dests |-> <<>>]
    /\ outlog = <<>>
    /\ msgLog = <<>>
    /\ promptCount = 0
    /\ botExc = "none"
    /\ killer = "pending"

\* ------------------------------------------------------------ on_cmd_ptm
\* A reader task: not resolved yet, or resolved with what its callback read.
Pending == [done |-> FALSE, val |-> <<>>]
Resolved(v) == [done |-> TRUE, val |-> v]

\* reader_cb of the PTY task on a pass of the event loop: os.read(fd, 1024)
PollPtm(t, q) ==
    IF ~t.done /\ q # <<>>
    THEN [task |-> Resolved(Slice(q, 0, MaxRead)), q |-> From(q, Min(MaxRead, Len(q)))]
    ELSE [task |-> t, q |-> q]

\* reader_cb of the control task: read_one_pkt(cmdsock), decode_cmd
PollCmd(t, q) ==
    IF ~t.done /\ q # <<>>
    THEN [task |-> Resolved(Head(q)), q |-> Tail(q)]
    ELSE [task |-> t, q |-> q]

\* Variant: the control packet always gets priority.
RaceTiebreak_CmdFirst(mode, cmd) == "ptm"

\* Race tiebreaker: the source whose task is put back into next_cmd_ptm.
RaceTiebreak(mode, cmd) ==
    IF mode = IN_PROMPT /\ cmd = RESP_BEGIN THEN "ptm"
    ELSE IF cmd = RESP_PROMPT THEN "cmd"
    ELSE "ptm"

\* done_dict and the tiebreaker, once both waits are over: the sources left
\* in `done`.
DoneAfterTiebreak(tp, tc) ==
    IF tp.done /\ tc.done THEN {"ptm", "cmd"} \ {RaceTiebreak(term_state, tc.val.tag)}
    ELSE {src \in {"ptm", "cmd"} : IF src = "ptm" THEN tp.done ELSE tc.done}

\* Variant: no new reader task is made for a source that was handled.
TasksAfterHandling_NoGen(n, src) == [n EXCEPT ![src] = @ - 1]

\* for task in done: the task handled is in `done` only, which the next
\* asyncio.wait replaces; next_cmd_ptm.add(gen_ptm_task()) or
\* next_cmd_ptm.add(gen_cmd_task()) adds one task of the same source
TasksAfterHandling(n, src) == [n EXCEPT ![src] = (@ - 1) + 1]

DInit ==
    /\ ptyFlight = <<>> /\ ptyQ = <<>> /\ cmdQ = <<>>
    /\ shellMode = "exec" /\ nWritten = 0 /\ nPkts = 0
    /\ ptmTask = Pending /\ cmdTask = Pending
    /\ inDone = {} /\ pc = "top" /\ iter = 0
    /\ ptmHandled = 0 /\ cmdLog = <<>> /\ tieLog = <<>>
    /\ nTasks = [src \in {"ptm", "cmd"} |-> 1]

\* ---------------------------------------------------------- bot_response
\* Senders: 0 is on_cmd_ptm (handle_ptm and handle_cmd call bot_response
\* one message after the other), the others are the tasks of upload_cb.
Senders == 0..NumUploads
MsgOf(t) == IF t = 0 THEN msgKind ELSE "UPLOAD"

\* Variant: no mutual exclusion around the rate limiter and the write.
LockFree_NoLock(h, q) == TRUE

\* asyncio.Lock.acquire returns at once if the lock is not held and nobody
\* waits for it.
LockFree(h, q) == h = 0 /\ q = <<>>

RInit ==
    /\ now = 0 /\ last_ts = 0
    /\ sst = [t \in Senders |-> "idle"]
    /\ swake = [t \in Senders |-> 0]
    /\ brlHolder = 0 /\ brlWaiters = <<>>
    /\ wlog = <<>> /\ nDemuxMsgs = 0

\* ------------------------------------------- handle_connection and _run
\* Descriptors _run creates or receives, the ones the session keeps, its
\* children, and its tasks (ptm_reader and cmd_reader are next_cmd_ptm;
\* write stands for the tasks of write_tasks).
FdNames == {"exe_fd", "cmdsockjail", "cmdsock", "ptm_fd", "bwrap_pidfd",
            "bash_pidfd", "netnsfd", "slirp4netns_pidfd"}
OwnedFds == FdNames \ {"exe_fd", "cmdsockjail"}
Children == {"bwrap", "bash", "slirp4netns"}
GatherTasks == {"killer", "on_exit_kill_bwrap", "on_exit_kill_slirp4netns",
                "on_cmd_ptm", "on_botmsg"}
TaskNames == GatherTasks \cup {"ptm_reader", "cmd_reader", "write"}
\* Tasks created while the finally block of _run is waiting for a task it
\* cancelled: a write task of on_botmsg, a reader task of on_cmd_ptm.
LateTasks == {"late_write", "late_reader"}
AllTasks == TaskNames \cup LateTasks
Raised(st) == st \notin {"none", "pending", "cancelled", "done"}

IsAlnum(c) == c \in (48..57) \cup (65..90) \cup (97..122)

\* re.match(r'^[a-zA-Z0-9]{1,30}$', idname): in Python $ matches at the end
\* of the string and also just before a newline that ends the string.
ReMatchIdname(s) ==
    \E n \in 1..MaxIdLen :
        /\ n <= Len(s)
        /\ \A i \in 1..n : IsAlnum(s[i])
        /\ (Len(s) = n \/ (Len(s) = n + 1 /\ s[n + 1] = LF))

\* read_idname on the line readline returned: the exception it raises, or
\* "none" (idname and reinit are then taken from the line)
ReadIdname(line) ==
    IF line.type = "empty" THEN "BotClosedException"
    ELSE IF line.type = "notjson" THEN "JSONDecodeError"
    ELSE IF line.type # "INIT" THEN "AssertionError"
    ELSE IF ~ReMatchIdname(line.idname) THEN "AssertionError"
    ELSE "none"

\* except Exception: traceback.print_exc(); raise BotClosedException
HandshakeRaise(e) == "BotClosedException"

\* Variant: every exception is taken as a restart.
Caught_Any(e) == TRUE

\* except RestartException: pass
Caught(e) == e = "RestartException"

\* Variant: BotClosedException does not leave the loop.
LoopAgain_BotClosed(e) == e \in {"none", "BotClosedException"}

\* while True: comm = Comm(reader, writer); await comm.run()  -- the loop
\* goes on only when run() returned
LoopAgain(e) == e = "none"

\* finally of the set-up block: cmdsockjail.close(), os.close(exe_fd)
SetupFinally(fds) ==
    [f \in FdNames |-> IF f \in {"exe_fd", "cmdsockjail"} /\ fds[f] = "open"
                       THEN "closed" ELSE fds[f]]
SetupCloses(fds, cl) ==
    [f \in FdNames |-> IF f \in {"exe_fd", "cmdsockjail"} /\ fds[f] = "open"
                       THEN cl[f] + 1 ELSE cl[f]]

\* The descriptors the finally block of _run closes: the pidfds and netnsfd
\* that are not None, cmdsock, and ptm_fd
TeardownCloses(fds) == {f \in OwnedFds : f = "ptm_fd" \/ fds[f] # "none"}

\* pidfd_send_signal in the finally block, for the pidfds that are not None
TeardownSignals(fds, sg) ==
    [c \in Children |->
        IF c = "bwrap" /\ fds["bwrap_pidfd"] # "none" THEN "SIGKILL"
        ELSE IF c = "bash" /\ fds["bash_pidfd"] # "none" THEN "SIGKILL"
        ELSE IF c = "slirp4netns" /\ fds["slirp4netns_pidfd"] # "none" THEN "SIGTERM"
        ELSE sg[c]]

\* if not task.done(): task.cancel(), for the tasks in S
CancelPending(ts, S) ==
    [t \in AllTasks |-> IF t \in S /\ ts[t] = "pending" THEN "cancelled" ELSE ts[t]]

\* discord_upload_callbacks[str(self.uuid)] = self.upload_cb
RunBegin(reg, id) == reg \cup {id}

\* Variant: the entry stays when run() is left.
RunFinally_Kept(reg, id) == reg

\* finally: del discord_upload_callbacks[str(self.uuid)]
RunFinally(reg, id) == reg \ {id}

\* DiscordUploaderFS._valid_path: path_to_uuid(path) in the registry
ValidPath(reg, id) == id \in reg

\* the identities that pass the handshake
RunIds == {id \in IdNames : ReMatchIdname(id)}
NoOverlay == [mounted |-> FALSE, dirty |-> FALSE]
FreshOverlay == [mounted |-> TRUE, dirty |-> FALSE]
NoStart == [of |-> 0, id |-> <<>>, reinit |-> FALSE, existed |-> FALSE,
            recreated |-> FALSE]

\* Variant: the directory is remade at every session start.
NeedsRoot_Always(reinit, run_exists) == TRUE

\* if reinit or not run_exists
NeedsRoot(reinit, run_exists) == reinit \/ ~run_exists

NotEnded == [exc |-> "none", nComm |-> 0, nFork |-> 0]

\* A new Comm: no descriptor, no child, no task of its own yet.
NoFds == [f \in FdNames |-> "none"]
NoCloses == [f \in FdNames |-> 0]
NoChildren == [c \in Children |-> "none"]
NoTasks == [t \in AllTasks |-> "none"]

\* The connection was accepted, handle_connection constructed the first
\* Comm and _run waits for the INIT line.
LInit ==
    /\ lpc = "handshake" /\ lexc = "none"
    /\ fd = NoFds /\ closes = NoCloses
    /\ child = NoChildren /\ sig = NoChildren /\ ltasks = NoTasks /\ tdLeft = {}
    /\ clientIn = <<>> /\ clientEof = FALSE /\ clientOut = <<>> /\ nSent = 0
    /\ runExists = [id \in RunIds |-> FALSE] /\ nComm = 1
    /\ overlay = [id \in RunIds |-> NoOverlay] /\ start = NoStart
    /\ registry = RunBegin({}, 1)
    /\ accepted = {} /\ fsOps = 0 /\ nFork = 0 /\ failedAt = "none"
    /\ launched = FALSE /\ silent = FALSE /\ ended = NotEnded

\* ------------------------------------------------------------ DISPLAY
\* pyte.Screen(80, 24); the cursor of a screen may stand one past the last
\* column, where the emulator leaves it after it has filled a row
BlankScreen ==
    [cursor |-> [x |-> 0, y |-> 0],
     display |-> [i \in 1..ScreenRows |-> [j \in 1..ScreenCols |-> SPACE]]]

\* Variant: the rows are sent with their trailing blanks.
RStrip_None(line) == line

\* line.rstrip()
RECURSIVE RStrip(_)
RStrip(line) ==
    IF line = <<>> \/ line[Len(line)] # SPACE THEN line
    ELSE RStrip(SubSeq(line, 1, Len(line) - 1))

\* ' ' * (cursor.x + 1) + '|\n'
DisplayHeader(s) == [i \in 1..(s.cursor.x + 1) |-> SPACE] \o <<BAR, LF>>

\* ('-' if cursor.y == i else ' ') + line.rstrip() + '\n' for the rows from
\* i on
RECURSIVE DisplayRows(_, _)
DisplayRows(s, i) ==
    IF i >= ScreenRows THEN <<>>
    ELSE <<IF s.cursor.y = i THEN DASH ELSE SPACE>> \o RStrip(s.display[i + 1])
         \o <<LF>> \o DisplayRows(s, i + 1)

RenderDisplay(s) == DisplayHeader(s) \o DisplayRows(s, 0)

GInit ==
    /\ rscreen = BlankScreen /\ rout = <<>>
    /\ upTask = "none" /\ sess = "live" /\ wfailed = {}

\* ------------------------------------------------------- the upload file
\* DiscordUploaderFile.__init__
FileInit == [st |-> "open", data |-> <<>>, efbig_hit |-> FALSE]

\* Variant: a write over the limit fails without setting efbig_hit.
FileWrite_NoFlag(f, reg, buf, offset) ==
    IF ~ValidPath(reg, 1) THEN [file |-> f, ret |-> "EIO"]
    ELSE IF offset # Len(f.data) THEN [file |-> f, ret |-> "EINVAL"]
    ELSE IF Len(f.data) + Len(buf) > UploadLimit THEN [file |-> f, ret |-> "EFBIG"]
    ELSE [file |-> [f EXCEPT !.data = @ \o buf], ret |-> "ok"]

\* DiscordUploaderFile.write(buf, offset) of the session 1: the file after
\* the call and the errno, or "ok" when len(buf) is returned
FileWrite(f, reg, buf, offset) ==
    IF ~ValidPath(reg, 1) THEN [file |-> f, ret |-> "EIO"]
    ELSE IF offset # Len(f.data) THEN [file |-> f, ret |-> "EINVAL"]
    ELSE IF Len(f.data) + Len(buf) > UploadLimit
         THEN [file |-> [f EXCEPT !.efbig_hit = TRUE], ret |-> "EFBIG"]
    ELSE [file |-> [f EXCEPT !.data = @ \o buf], ret |-> "ok"]

\* the offsets of a write: the end of the data, as an append does, or past it
UploadOffsets(f) == {Len(f.data), Len(f.data) + 1}

\* release: if self.data and not self.efbig_hit
ReleaseWants(f) == f.data # <<>> /\ ~f.efbig_hit

\* what the callbacks of the ready queue schedule: _upload_cb creates the
\* upload task; reader_cb resolves the future of the reader task, whose end
\* resolves the waiter of asyncio.wait, which wakes on_cmd_ptm
Scheduled(cb) ==
    CASE cb = "upload_cb" -> <<"upload_task">>
      [] cb = "cmd_readable" -> <<"cmd_task">>
      [] cb = "cmd_task" -> <<"cmd_wait">>
      [] cb = "cmd_wait" -> <<"cmd_wake">>
      [] OTHER -> <<>>

UInit ==
    /\ ufile = [st |-> "none", data |-> <<>>, efbig_hit |-> FALSE]
    /\ fpc = "idle" /\ regLock = "free"
    /\ loopq = <<>> /\ cmdSt = "exec" /\ msgKind = "DIRECT"
    /\ wres = <<>> /\ upl = <<>> /\ regAtRelease = FALSE
    /\ acclog = {} /\ keyErr = FALSE

\* ============================================================== Spec
\* The handlers driven directly: every order of PTY reads, timer flushes and
\* control packets that on_cmd_ptm can hand to handle_ptm and handle_cmd.
\* a PTY read handled by the loop: handle_ptm(data, IF_NECESSARY)
PtmReadOf(chunks, max) ==
    /\ exc = "none" /\ nReads < max
    /\ \E data \in chunks : ApplyPtm(data, IF_NECESSARY)
    /\ nReads' = nReads + 1
    /\ UNCHANGED <<nCmds, ivars, rvars, lvars, kvars, tvars, uvars, svars, dvars>>

\* the flush deadline passed: handle_ptm(b'', HIT_TIMER)
TimerFlush ==
    /\ exc = "none" /\ has_flush_wait
    /\ ApplyPtm(<<>>, HIT_TIMER)
    /\ UNCHANGED <<cvars, ivars, rvars, lvars, kvars, tvars, uvars, svars, dvars>>

CmdPromptOf(max) ==
    /\ exc = "none" /\ nCmds < max
    /\ \E p \in PromptPayloads : ApplyCmd(RESP_PROMPT, p)
    /\ nCmds' = nCmds + 1
    /\ UNCHANGED <<nReads, svars, dvars, kvars>>

CmdBeginOf(max) ==
    /\ exc = "none" /\ nCmds < max
    /\ ApplyCmd(RESP_BEGIN, <<>>)
    /\ nCmds' = nCmds + 1
    /\ UNCHANGED <<nReads, svars, dvars, kvars>>

PtmRead == PtmReadOf(ReadChunks, MaxReads)

CmdPrompt == CmdPromptOf(MaxCmds)

CmdBegin == CmdBeginOf(MaxCmds)

TInit == splitPc = "before" /\ splitIn = <<>> /\ twin = <<>>

\* self.last_ptm_flush = time.monotonic() before the loop
KInit == last_ptm_flush = 0 /\ timeout = -1 /\ sendq = <<>> /\ hitAt = -1

\* no call of check_sgr_osc on its own
NoCall == [res |-> "none", end |-> -1]

InitSession ==
    /\ HInit /\ IInit /\ DInit /\ RInit /\ LInit /\ TInit /\ KInit /\ UInit /\ GInit
    /\ nReads = 0 /\ nCmds = 0

Init == InitSession /\ sgrIn = [d |-> <<>>, i |-> 0] /\ sgrOut = NoCall

Next == PtmRead \/ TimerFlush \/ CmdPrompt \/ CmdBegin

vars == <<hvars, cvars, svars, dvars, ivars, rvars, lvars, kvars, tvars, uvars>>

Spec == Init /\ [][Next]_vars

\* ========================================================== SpecDemux
\* on_cmd_ptm run against a shell that writes output to the PTY slave and
\* sends control packets.  Bytes written to the slave become readable on the
\* master when the kernel has pushed them through the line discipline
\* (PtyDeliver); a packet is readable as soon as it is sent.
\* the shell writes one byte of output
ShellWrite ==
    /\ nWritten < MaxWrites
    /\ \E b \in DemuxBytes : ptyFlight' = Append(ptyFlight, b)
    /\ nWritten' = nWritten + 1
    /\ UNCHANGED <<ptyQ, cmdQ, shellMode, nPkts, hvars, cvars, dvars, ivars, rvars, lvars, kvars, tvars, uvars>>

\* the kernel makes the bytes written so far readable on the master
PtyDeliver ==
    /\ ptyFlight # <<>>
    /\ ptyQ' = ptyQ \o ptyFlight
    /\ ptyFlight' = <<>>
    /\ UNCHANGED <<cmdQ, shellMode, nWritten, nPkts, hvars, cvars, dvars, ivars, rvars, lvars, kvars, tvars, uvars>>

Packet(tag, payload) == [tag |-> tag, payload |-> payload, before |-> nWritten]

\* the command (or the start-up) is over: RESP_PROMPT with the prompt text
ShellPrompt ==
    /\ nPkts < MaxPkts /\ shellMode = "exec"
    /\ cmdQ' = Append(cmdQ, Packet(RESP_PROMPT, <<36>>))
    /\ shellMode' = "prompt"
    /\ nPkts' = nPkts + 1
    /\ UNCHANGED <<ptyFlight, ptyQ, nWritten, hvars, cvars, dvars, ivars, rvars, lvars, kvars, tvars, uvars>>

\* the shell got a command line, which on_botmsg forwards in IN_PROMPT
\* only: RESP_BEGIN
ShellBegin ==
    /\ nPkts < MaxPkts /\ shellMode = "prompt" /\ term_state = IN_PROMPT
    /\ cmdQ' = Append(cmdQ, Packet(RESP_BEGIN, <<>>))
    /\ shellMode' = "exec"
    /\ nPkts' = nPkts + 1
    /\ UNCHANGED <<ptyFlight, ptyQ, nWritten, hvars, cvars, dvars, ivars, rvars, lvars, kvars, tvars, uvars>>

\* a packet with a tag that is neither RESP_PROMPT nor RESP_BEGIN
ShellMisc ==
    /\ nPkts < MaxPkts
    /\ \E tag \in MiscTags : cmdQ' = Append(cmdQ, Packet(tag, <<>>))
    /\ nPkts' = nPkts + 1
    /\ UNCHANGED <<ptyFlight, ptyQ, shellMode, nWritten, hvars, cvars, dvars, ivars, rvars, lvars, kvars, tvars, uvars>>

\* timeout <= 0 at the top of the loop, or the first wait timed out:
\* handle_ptm(b'', HIT_TIMER); continue
DemuxTimer ==
    /\ pc = "top" /\ exc = "none" /\ has_flush_wait
    /\ ApplyPtm(<<>>, HIT_TIMER)
    /\ UNCHANGED <<cvars, svars, dvars, ivars, rvars, lvars, kvars, tvars, uvars>>

\* the event loop runs the reader callbacks while a handler of the previous
\* iteration is suspended in bot_response
HandlerPoll ==
    /\ pc = "top" /\ exc = "none"
    /\ \E rp \in {PollPtm(ptmTask, ptyQ)}, rc \in {PollCmd(cmdTask, cmdQ)} :
          /\ <<rp.task, rc.task>> # <<ptmTask, cmdTask>>
          /\ ptmTask' = rp.task /\ ptyQ' = rp.q
          /\ cmdTask' = rc.task /\ cmdQ' = rc.q
    /\ UNCHANGED <<ptyFlight, shellMode, nWritten, nPkts, inDone, pc, iter,
                   ptmHandled, cmdLog, tieLog, nTasks, hvars, cvars, ivars, rvars, lvars, kvars,
                   tvars, uvars>>

\* One asyncio.wait: the reader callbacks run for what is readable.  After
\* the first wait with one task resolved the loop goes on to the second
\* wait; otherwise done_dict is built and the tiebreaker applied.
WaitStep(second) ==
    \E rp \in {PollPtm(ptmTask, ptyQ)}, rc \in {PollCmd(cmdTask, cmdQ)} :
       /\ second \/ rp.task.done \/ rc.task.done
       /\ ptmTask' = rp.task /\ ptyQ' = rp.q
       /\ cmdTask' = rc.task /\ cmdQ' = rc.q
       /\ IF ~second /\ ~(rp.task.done /\ rc.task.done)
          THEN pc' = "wait2" /\ UNCHANGED <<inDone, tieLog>>
          ELSE /\ pc' = "dispatch"
               /\ inDone' = DoneAfterTiebreak(rp.task, rc.task)
               /\ tieLog' = IF rp.task.done /\ rc.task.done
                            THEN Append(tieLog, [iter |-> IF second THEN iter ELSE iter + 1,
                                                 mode |-> term_state,
                                                 cmd |-> rc.task.val.tag, handled |-> <<>>])
                            ELSE tieLog
       /\ iter' = IF second THEN iter ELSE iter + 1
       /\ UNCHANGED <<ptyFlight, shellMode, nWritten, nPkts, ptmHandled, cmdLog, nTasks,
                      hvars, cvars, ivars, rvars, lvars, kvars, tvars, uvars>>

DemuxWait == pc = "top" /\ exc = "none" /\ WaitStep(FALSE)

DemuxWait2 == pc = "wait2" /\ WaitStep(TRUE)

\* the tie of this iteration, with src added to what it handled
NoteHandled(src) ==
    IF tieLog # <<>> /\ tieLog[Len(tieLog)].iter = iter
    THEN [tieLog EXCEPT ![Len(tieLog)].handled = Append(@, src)]
    ELSE tieLog

\* for task in done: a PTY read
DispatchPtm ==
    /\ pc = "dispatch" /\ exc = "none" /\ "ptm" \in inDone
    /\ ptmTask' = Pending
    /\ ApplyPtm(ptmTask.val, IF_NECESSARY)
    /\ ptmHandled' = ptmHandled + Len(ptmTask.val)
    /\ nTasks' = TasksAfterHandling(nTasks, "ptm")
    /\ tieLog' = NoteHandled("ptm")
    /\ inDone' = inDone \ {"ptm"}
    /\ pc' = IF inDone' = {} THEN "top" ELSE "dispatch"
    /\ UNCHANGED <<cmdTask, iter, cmdLog, svars, cvars, ivars, rvars, lvars, kvars, tvars, uvars>>

\* for task in done: a control packet
DispatchCmd ==
    /\ pc = "dispatch" /\ exc = "none" /\ "cmd" \in inDone
    /\ cmdTask' = Pending
    /\ ApplyCmd(cmdTask.val.tag, cmdTask.val.payload)
    /\ cmdLog' = Append(cmdLog, [tag |-> cmdTask.val.tag, before |-> cmdTask.val.before,
                                 handled |-> ptmHandled])
    /\ nTasks' = TasksAfterHandling(nTasks, "cmd")
    /\ tieLog' = NoteHandled("cmd")
    /\ inDone' = inDone \ {"cmd"}
    /\ pc' = IF inDone' = {} THEN "top" ELSE "dispatch"
    /\ UNCHANGED <<ptmTask, iter, ptmHandled, svars, cvars, kvars>>

NextDemux ==
    \/ ShellWrite \/ PtyDeliver \/ ShellPrompt \/ ShellBegin \/ ShellMisc
    \/ DemuxTimer \/ HandlerPoll \/ DemuxWait \/ DemuxWait2
    \/ DispatchPtm \/ DispatchCmd

SpecDemux == Init /\ [][NextDemux]_vars

\* ============================================================ SpecRate
\* bot_response called by on_cmd_ptm and by upload tasks while time passes.
Tick ==
    /\ now < MaxTime
    /\ now' = now + 1
    /\ UNCHANGED <<last_ts, sst, swake, brlHolder, brlWaiters, wlog, nDemuxMsgs,
                   hvars, cvars, svars, dvars, ivars, lvars, kvars, tvars, uvars>>

\* async with self.bot_response_lock: entered, or queued behind the holder
Enter(t) ==
    IF LockFree(brlHolder, brlWaiters)
    THEN /\ brlHolder' = t + 1
         /\ sst' = [sst EXCEPT ![t] = "limit"]
         /\ UNCHANGED brlWaiters
    ELSE /\ brlWaiters' = Append(brlWaiters, t)
         /\ sst' = [sst EXCEPT ![t] = "lockwait"]
         /\ UNCHANGED brlHolder

Call(t) ==
    /\ sst[t] = "idle"
    /\ t = 0 => nDemuxMsgs < MaxDemuxMsgs
    /\ nDemuxMsgs' = IF t = 0 THEN nDemuxMsgs + 1 ELSE nDemuxMsgs
    /\ Enter(t)
    /\ UNCHANGED <<now, last_ts, swake, wlog, hvars, cvars, svars, dvars, ivars, lvars, kvars, tvars, uvars>>

\* last_ts = time.monotonic(); bot_writer.write(...)
Write(t) ==
    /\ last_ts' = now
    /\ wlog' = Append(wlog, [at |-> now, sender |-> t, type |-> MsgOf(t)])
    /\ sst' = [sst EXCEPT ![t] = "drain"]

\* rate_limiter(): sleep until last_ts + min_delay, or go on at once
RateLimit(t) ==
    /\ sst[t] = "limit"
    /\ IF now < last_ts + MinDelay
       THEN /\ sst' = [sst EXCEPT ![t] = "sleep"]
            /\ swake' = [swake EXCEPT ![t] = last_ts + MinDelay]
            /\ UNCHANGED <<last_ts, wlog>>
       ELSE Write(t) /\ UNCHANGED swake
    /\ UNCHANGED <<now, brlHolder, brlWaiters, nDemuxMsgs, hvars, cvars, svars, dvars, ivars, lvars, kvars, tvars, uvars>>

\* asyncio.sleep(least - now) is over
Wake(t) ==
    /\ sst[t] = "sleep" /\ now >= swake[t]
    /\ Write(t)
    /\ UNCHANGED <<now, swake, brlHolder, brlWaiters, nDemuxMsgs,
                   hvars, cvars, svars, dvars, ivars, lvars, kvars, tvars, uvars>>

\* await self.bot_writer.drain() returned; the lock is released and the
\* first waiter gets it
Drained(t) ==
    /\ sst[t] = "drain"
    /\ IF brlWaiters = <<>>
       THEN /\ brlHolder' = 0
            /\ sst' = [sst EXCEPT ![t] = IF t = 0 THEN "idle" ELSE "done"]
            /\ UNCHANGED brlWaiters
       ELSE /\ brlHolder' = Head(brlWaiters) + 1
            /\ brlWaiters' = Tail(brlWaiters)
            /\ sst' = [sst EXCEPT ![t] = IF t = 0 THEN "idle" ELSE "done",
                                  ![Head(brlWaiters)] = "limit"]
    /\ UNCHANGED <<now, last_ts, swake, wlog, nDemuxMsgs, hvars, cvars, svars, dvars, ivars, lvars, kvars, tvars, uvars>>

NextRate ==
    \/ Tick
    \/ \E t \in Senders : Call(t) \/ RateLimit(t) \/ Wake(t) \/ Drained(t)

SpecRate == Init /\ [][NextRate]_vars

\* =========================================================== SpecInput
\* on_botmsg and its write tasks, while on_cmd_ptm changes the mode.
InputPtmRead == PtmReadOf({<<DEL>>}, MaxInputReads)

InputCmdPrompt == CmdPromptOf(MaxInputCmds)

InputCmdBegin == CmdBeginOf(MaxInputCmds)

\* one line read from the client: the write it registers, and the log of
\* what was read in which mode
BotRead(type, arg, w) ==
    /\ botExc = "none" /\ Len(msgLog) < MaxMsgs
    /\ wtasks' = make_write_task(wtasks, w)
    /\ msgLog' = Append(msgLog, [type |-> type, arg |-> arg, mode |-> term_state,
                                 task |-> IF w.dest = "none" THEN 0 ELSE Len(wtasks) + 1])
    /\ UNCHANGED <<holder, lockq, outlog, promptCount, botExc, killer,
                   hvars, cvars, svars, dvars, rvars, lvars, kvars, tvars, uvars>>

BotInput == \E text \in InputTexts : BotRead("INPUT", text, InputWrite(term_state, text))

BotSignal == \E n \in Signums : BotRead("SIGNAL", n, SignalWrite(term_state, n))

\* any other type: raise AssertionError
BotOther ==
    /\ botExc = "none" /\ Len(msgLog) < MaxMsgs
    /\ botExc' = "AssertionError"
    /\ msgLog' = Append(msgLog, [type |-> "OTHER", arg |-> 0, mode |-> term_state, task |-> 0])
    /\ UNCHANGED <<wtasks, holder, lockq, outlog, promptCount, killer,
                   hvars, cvars, svars, dvars, rvars, lvars, kvars, tvars, uvars>>

\* the first step of a write task; the event loop starts tasks in the order
\* of their creation
TaskStart(i) ==
    /\ wtasks[i].st = "new"
    /\ \A j \in 1..(i - 1) : wtasks[j].st # "new"
    /\ \E r \in {Acquire(wtasks, holder, lockq, i)} :
          wtasks' = r.tasks /\ holder' = r.holder /\ lockq' = r.lockq
    /\ UNCHANGED <<outlog, msgLog, promptCount, botExc, killer, hvars, cvars, svars, dvars, rvars,
                   lvars, kvars, tvars, uvars>>

\* another task to the same destination has written a part of its data and
\* is neither finished nor cancelled
OtherInProgress(i) ==
    \E j \in 1..Len(wtasks) :
        /\ j # i /\ wtasks[j].dest = wtasks[i].dest /\ Live(wtasks[j])
        /\ wtasks[j].pos > 0

\* the destination takes k more bytes (os.write in writer_cb of writeall,
\* sock.send in sock_sendall); after the last byte the task ends and the
\* lock is released
TaskWriteBytes(i, k) ==
    /\ outlog' = Append(outlog, [task |-> i, dest |-> wtasks[i].dest,
                                 data |-> SubSeq(wtasks[i].data, wtasks[i].pos + 1,
                                                 wtasks[i].pos + k),
                                 epoch |-> promptCount,
                                 overlap |-> OtherInProgress(i)])
    /\ IF wtasks[i].pos + k < Len(wtasks[i].data)
       THEN /\ wtasks' = [wtasks EXCEPT ![i].pos = @ + k]
            /\ UNCHANGED <<holder, lockq>>
       ELSE \E r \in {Release([wtasks EXCEPT ![i].pos = @ + k, ![i].st = "done"],
                              holder, lockq, wtasks[i].dest)} :
               wtasks' = r.tasks /\ holder' = r.holder /\ lockq' = r.lockq

TaskWrite(i) ==
    /\ wtasks[i].st = "writing"
    /\ \E k \in (IF wtasks[i].dest = "ptm" THEN {1} ELSE {})
                \cup {Len(wtasks[i].data) - wtasks[i].pos} : TaskWriteBytes(i, k)
    /\ UNCHANGED <<msgLog, promptCount, botExc, killer, hvars, cvars, svars, dvars, rvars, lvars,
                   kvars, tvars, uvars>>

NextInput ==
    \/ InputPtmRead \/ InputCmdPrompt \/ InputCmdBegin
    \/ BotInput \/ BotSignal \/ BotOther
    \/ \E i \in 1..Len(wtasks) : TaskStart(i) \/ TaskWrite(i)

SpecInput == Init /\ [][NextInput]_vars

\* ============================================================ SpecKill
\* The write tasks of on_botmsg and the task of upload_cb while _run waits
\* in asyncio.gather: a task ends, fails or is cancelled; gather raises
\* and the finally block of _run runs.
WriteErrors == {"OSError"}

killRest == <<rscreen, rout, zvars, hvars, cvars, svars, dvars, rvars, lvars, kvars, tvars,
              ufile, fpc, regLock, loopq, cmdSt, msgKind, wres, upl, regAtRelease,
              acclog, keyErr>>

KillCmdPrompt == sess = "live" /\ InputCmdPrompt

KillCmdBegin == sess = "live" /\ InputCmdBegin

KillBotInput == sess = "live" /\ BotInput

KillBotSignal == sess = "live" /\ BotSignal

KillBotOther == sess = "live" /\ BotOther

\* the coroutine of write task i raises (os.write in writeall, sock.send
\* in sock_sendall): async with releases the lock, inner() catches
TaskFail(i) ==
    /\ wtasks[i].st = "writing"
    /\ \E ev \in WriteErrors :
       \E e \in {InnerEnds(ev, killer)} :
       \E r \in {Release([wtasks EXCEPT ![i].st = e.task], holder, lockq,
                          wtasks[i].dest)} :
          /\ wtasks' = r.tasks /\ holder' = r.holder /\ lockq' = r.lockq
          /\ killer' = e.killer
    /\ wfailed' = wfailed \cup {i}
    /\ UNCHANGED <<outlog, msgLog, promptCount, botExc, upTask, sess, killRest>>

\* _upload_cb, scheduled by upload_cb from the FUSE thread: the task is
\* created and added to write_tasks
UploadCb ==
    /\ sess = "live" /\ upTask = "none"
    /\ upTask' = "pending"
    /\ UNCHANGED <<ivars, sess, wfailed, killRest>>

\* _upload_cb_inner: bot_response returned, or raised
UploadEnds ==
    /\ upTask = "pending"
    /\ \E ev \in {"done"} \cup WriteErrors :
       \E e \in {InnerEnds(ev, killer)} :
          /\ upTask' = e.task
          /\ killer' = e.killer
          /\ wfailed' = IF ev = "done" THEN wfailed ELSE wfailed \cup {0}
    /\ UNCHANGED <<wtasks, holder, lockq, outlog, msgLog, promptCount, botExc, sess,
                   killRest>>

\* for task in self.write_tasks: if not task.done(): task.cancel()
CancelWriteTasks(tasks) ==
    [i \in 1..Len(tasks) |->
        IF Live(tasks[i]) THEN [tasks[i] EXCEPT !.st = "cancelled"] ELSE tasks[i]]

\* await asyncio.gather(*tasks) raises the exception of self.killer, of
\* on_botmsg or of on_cmd_ptm; the finally block cancels the write tasks
GatherRaises ==
    /\ sess = "live"
    /\ Raised(killer) \/ botExc # "none" \/ exc # "none"
    /\ sess' = "finally"
    /\ \E r \in {SettleLocks(CancelWriteTasks(wtasks), holder, lockq, Dests)} :
          wtasks' = r.tasks /\ holder' = r.holder /\ lockq' = r.lockq
    /\ upTask' = IF upTask = "pending" THEN "cancelled" ELSE upTask
    /\ killer' = IF upTask = "pending" THEN InnerEnds("CancelledError", killer).killer
                 ELSE KillerAfterCancel(wtasks, 1..Len(wtasks), killer)
    /\ UNCHANGED <<outlog, msgLog, promptCount, botExc, wfailed, killRest>>

\* for task in tasks | self.next_cmd_ptm: if not task.done(): task.cancel();
\* await task; then the descriptors are closed and _run is left
FinallyRest ==
    /\ sess = "finally"
    /\ sess' = "ended"
    /\ killer' = IF killer = "pending" THEN "cancelled" ELSE killer
    /\ UNCHANGED <<wtasks, holder, lockq, outlog, msgLog, promptCount, botExc, upTask,
                   wfailed, killRest>>

NextKill ==
    \/ KillCmdPrompt \/ KillCmdBegin \/ KillBotInput \/ KillBotSignal \/ KillBotOther
    \/ \E i \in 1..Len(wtasks) : TaskStart(i) \/ TaskWrite(i) \/ TaskFail(i)
    \/ UploadCb \/ UploadEnds \/ GatherRaises \/ FinallyRest

SpecKill == Init /\ [][NextKill]_vars

\* The event loop runs _run when the future it waits for is resolved.
SpecKillFair == SpecKill /\ WF_vars(GatherRaises) /\ WF_vars(FinallyRest)

\* ============================================================= SpecSgr
\* check_sgr_osc called on its own: the data is a prefix of a sequence of
\* SgrForms, or such a prefix followed by one byte of SgrTails, after
\* SgrPads bytes of text; ind is the index of the ESC.
Prefixes(s) == {SubSeq(s, 1, n) : n \in 1..Len(s)}

SgrBodies ==
    UNION {Prefixes(f) : f \in SgrForms}
    \cup UNION {{p \o <<b>> : b \in SgrTails} : p \in UNION {Prefixes(f) : f \in SgrForms}}

SgrInputs ==
    {[d |-> [k \in 1..n |-> 97] \o b, i |-> n] : n \in SgrPads, b \in SgrBodies}

SgrInit == InitSession /\ sgrIn \in SgrInputs /\ sgrOut = NoCall

SgrCheck ==
    /\ sgrOut = NoCall
    /\ sgrOut' = check_sgr_osc(sgrIn.d, sgrIn.i)
    /\ UNCHANGED <<sgrIn, rscreen, rout, upTask, sess, wfailed, hvars, cvars, svars, dvars,
                   ivars, rvars, lvars, kvars, tvars, ufile, fpc, regLock, loopq, cmdSt,
                   msgKind, wres, upl, regAtRelease, acclog, keyErr>>

NextSgr == SgrCheck

SpecSgr == SgrInit /\ [][NextSgr]_vars

\* =========================================================== SpecSplit
\* One escape run read in two parts next to the same run read at once.
\* The session first handles some reads, timer flushes and RESP_BEGIN
\* packets; then, in IN_EXEC_DIRECT, the first k bytes of a run R are read,
\* and then the rest of R with a text T after it.  twin is what handle_ptm
\* does when R + T is read in one read instead.
IsRun(R) == check_sgr_osc(R, 0) = Yes(Len(R))

CoreOf(r) == [term_state |-> r.term_state, pending_out |-> r.pending_out,
              has_flush_wait |-> r.has_flush_wait, te |-> r.te]

\* handle_ptm(R + T, IF_NECESSARY) in the state c
OneRead(c, d) ==
    [core |-> CoreOf(HandlePtm(c, d, IF_NECESSARY)),
     out |-> HandlePtm(c, d, IF_NECESSARY).out,
     exc |-> HandlePtm(c, d, IF_NECESSARY).exc]

SplitBegin == splitPc = "before" /\ CmdBeginOf(MaxSplitCmds)

SplitPrefixRead == splitPc = "before" /\ PtmReadOf(SplitChunks, MaxSplitReads)

SplitTimer == splitPc = "before" /\ TimerFlush

\* the read that returns R[:k]
SplitFirst ==
    /\ splitPc = "before" /\ exc = "none" /\ term_state = IN_EXEC_DIRECT
    /\ \E R \in SplitRuns : \E T \in PlainTexts : \E k \in 1..Len(R) :
          /\ IsRun(R)
          /\ ApplyPtm(Slice(R, 0, k), IF_NECESSARY)
          /\ splitIn' = <<[R |-> R, T |-> T, k |-> k]>>
          /\ twin' = <<OneRead(Core, R \o T) @@ [at |-> Len(sent)]>>
    /\ splitPc' = "first"
    /\ UNCHANGED <<cvars, ivars, rvars, lvars, kvars, uvars, svars, dvars>>

\* the read that returns R[k:] + T
SplitSecond ==
    /\ splitPc = "first" /\ exc = "none"
    /\ ApplyPtm(From(splitIn[1].R, splitIn[1].k) \o splitIn[1].T, IF_NECESSARY)
    /\ splitPc' = "second"
    /\ UNCHANGED <<splitIn, twin, cvars, ivars, rvars, lvars, kvars, uvars, svars, dvars>>

NextSplit == SplitBegin \/ SplitPrefixRead \/ SplitTimer \/ SplitFirst \/ SplitSecond

SpecSplit == Init /\ [][NextSplit]_vars

\* =========================================================== SpecTimer
\* The loop of on_cmd_ptm with time: the timeout it computes at the top,
\* the asyncio.wait that ends with a PTY read, a control packet or the
\* timeout, and the handler, which is suspended in bot_response (lock, rate
\* limiter, drain) for each message it sends.  Time does not pass while the
\* loop is between two awaits, and a wait does not outlast its timeout.
\* Variant: the wait never gets a timeout.
FlushDeadline_None(fw, last) == -1

\* Variant: the deadline is the time of the last flush itself.
FlushDeadline_NoDelay(fw, last) == IF fw THEN last ELSE -1

\* if self.has_flush_wait: timeout = max(0, last_ptm_flush + 0.5 - now)
\* else: timeout = None; as the time at which the wait ends, -1 for None
FlushDeadline(fw, last) == IF fw THEN last + FlushDelay ELSE -1

\* one entry for each message the handler sent in this step
SendKinds(before, after) ==
    [i \in 1..(Len(after) - Len(before)) |->
        IF after[Len(before) + i].type = "PROMPT" THEN "prompt" ELSE "flush"]

\* the handler ran up to its first bot_response, or to its end
AfterHandler ==
    /\ sendq' = SendKinds(sent, sent')
    /\ pc' = IF sendq' = <<>> THEN "top" ELSE "sending"

TimerRest == <<ptmTask, cmdTask, inDone, iter, ptmHandled, cmdLog, tieLog, nTasks>>

\* top of the loop: flush at once if the deadline has passed, else wait
TimerTop ==
    /\ pc = "top" /\ exc = "none"
    /\ \E d \in {FlushDeadline(has_flush_wait, last_ptm_flush)} :
          IF d >= 0 /\ now >= d
          THEN /\ ApplyPtm(<<>>, HIT_TIMER)
               /\ AfterHandler
               /\ hitAt' = now
               /\ UNCHANGED <<timeout, last_ptm_flush>>
          ELSE /\ pc' = "wait" /\ timeout' = d
               /\ UNCHANGED <<hvars, sendq, last_ptm_flush, hitAt>>
    /\ UNCHANGED <<cvars, ivars, rvars, lvars, tvars, uvars, svars, TimerRest>>

\* if not done: handle_ptm(b'', HIT_TIMER)
TimerFire ==
    /\ pc = "wait" /\ timeout >= 0 /\ now >= timeout
    /\ ApplyPtm(<<>>, HIT_TIMER)
    /\ AfterHandler
    /\ hitAt' = now
    /\ UNCHANGED <<timeout, last_ptm_flush, cvars, ivars, rvars, lvars, tvars, uvars, svars, TimerRest>>

\* if timeout is None: self.last_ptm_flush = time.monotonic()
LastFlushAtWake == IF timeout < 0 THEN now ELSE last_ptm_flush

\* the wait ends with a PTY read
TimerRead ==
    /\ pc = "wait" /\ nReads < MaxTimerReads
    /\ \E data \in TimerChunks : ApplyPtm(data, IF_NECESSARY)
    /\ AfterHandler
    /\ last_ptm_flush' = LastFlushAtWake
    /\ hitAt' = -1
    /\ nReads' = nReads + 1
    /\ UNCHANGED <<timeout, nCmds, ivars, rvars, lvars, tvars, uvars, svars, TimerRest>>

\* the wait ends with a control packet
TimerCmd ==
    /\ pc = "wait" /\ nCmds < MaxTimerCmds
    /\ \/ ApplyCmd(RESP_BEGIN, <<>>)
       \/ \E p \in PromptPayloads : ApplyCmd(RESP_PROMPT, p)
    /\ AfterHandler
    /\ last_ptm_flush' = LastFlushAtWake
    /\ hitAt' = -1
    /\ nCmds' = nCmds + 1
    /\ UNCHANGED <<timeout, nReads, svars, TimerRest>>

\* bot_response returned for one message: after a DIRECT or a DISPLAY
\* handle_ptm sets self.last_ptm_flush = time.monotonic()
TimerSent ==
    /\ pc = "sending"
    /\ sendq' = Tail(sendq)
    /\ last_ptm_flush' = IF Head(sendq) = "flush" THEN now ELSE last_ptm_flush
    /\ pc' = IF sendq' = <<>> THEN "top" ELSE "sending"
    /\ UNCHANGED <<timeout, hitAt, hvars, cvars, ivars, lvars, tvars, uvars, svars, TimerRest,
                   last_ts, sst, swake, brlHolder, brlWaiters, wlog, nDemuxMsgs, now>>

\* 100 ms pass while the loop is suspended in a wait or in bot_response
TimerTick ==
    /\ now < MaxClock
    /\ pc \in {"wait", "sending"}
    /\ ~(pc = "wait" /\ timeout >= 0 /\ now >= timeout)
    /\ now' = now + 1
    /\ UNCHANGED <<last_ts, sst, swake, brlHolder, brlWaiters, wlog, nDemuxMsgs,
                   hvars, cvars, svars, dvars, ivars, lvars, kvars, tvars, uvars>>

NextTimer == TimerTop \/ TimerFire \/ TimerRead \/ TimerCmd \/ TimerSent \/ TimerTick

SpecTimer == Init /\ [][NextTimer]_vars

\* ========================================================== SpecRender
\* The DISPLAY message of handle_ptm for every screen the emulator can be
\* in: the emulator is a library, so a feed is taken to move the cursor
\* anywhere or to change any cell.
ScreenFeed ==
    /\ rout = <<>>
    /\ \/ \E x \in 0..ScreenCols : \E y \in 0..(ScreenRows - 1) :
             rscreen' = [rscreen EXCEPT !.cursor = [x |-> x, y |-> y]]
       \/ \E i \in 1..ScreenRows : \E j \in 1..ScreenCols : \E c \in ScreenChars :
             rscreen' = [rscreen EXCEPT !.display[i][j] = c]
    /\ rscreen' # rscreen
    /\ UNCHANGED <<rout, qvars, hvars, cvars, svars, dvars, ivars, rvars, lvars, kvars, tvars,
                   ufile, fpc, regLock, loopq, cmdSt, msgKind, wres, upl,
                   regAtRelease, acclog, keyErr>>

\* handle_ptm in IN_EXEC_TERMEMU with a flush type other than IF_NECESSARY
DisplayFlush ==
    /\ rout = <<>>
    /\ rout' = <<[screen |-> rscreen, payload |-> RenderDisplay(rscreen)]>>
    /\ UNCHANGED <<rscreen, qvars, hvars, cvars, svars, dvars, ivars, rvars, lvars, kvars, tvars,
                   ufile, fpc, regLock, loopq, cmdSt, msgKind, wres, upl,
                   regAtRelease, acclog, keyErr>>

NextRender == ScreenFeed \/ DisplayFlush

SpecRender == Init /\ [][NextRender]_vars

\* ========================================================== SpecUpload
\* A command of session 1 opens /dev/discord once, writes to it and closes
\* it while the FUSE worker thread serves the requests; the shell then
\* sends RESP_PROMPT, and the session may end at any time.  The command
\* writes nothing to the terminal, so on_cmd_ptm sends the PROMPT only.
notUpload == <<hvars, cvars, svars, dvars, ivars, kvars, tvars, gvars>>
lother == <<lpc, lexc, fd, closes, child, sig, ltasks, tdLeft, clientIn, clientEof,
            clientOut, nSent, runExists, overlay, start, nComm, accepted, fsOps, nFork,
            failedAt, launched, silent, ended>>
SessionLive == ValidPath(registry, 1)

\* DiscordUploaderFile.__new__ and __init__
FuseOpen ==
    /\ ufile.st = "none" /\ fpc = "idle" /\ cmdSt = "exec"
    /\ \E flags \in OpenFlags :
          ufile' = IF ValidPath(registry, 1) /\ flags = "O_WRONLY"
                   THEN FileInit ELSE ufile
    /\ acclog' = acclog \cup {[by |-> "fuse", op |-> "in", holder |-> "fuse"]}
    /\ UNCHANGED <<fpc, regLock, loopq, cmdSt, msgKind, wres, upl, regAtRelease,
                   keyErr, notUpload, rvars, lvars>>

\* DiscordUploaderFile.write
FuseWrite ==
    /\ ufile.st = "open" /\ fpc = "idle" /\ cmdSt = "exec"
    /\ Len(wres) < MaxUploadWrites
    /\ \E buf \in UploadBufs : \E offset \in UploadOffsets(ufile) :
       \E r \in {FileWrite(ufile, registry, buf, offset)} :
          /\ ufile' = r.file
          /\ wres' = Append(wres, [buf |-> buf, offset |-> offset, ret |-> r.ret,
                                   before |-> ufile.data, after |-> r.file.data,
                                   reg |-> SessionLive])
    /\ acclog' = acclog \cup {[by |-> "fuse", op |-> "in", holder |-> "fuse"]}
    /\ UNCHANGED <<fpc, regLock, loopq, cmdSt, msgKind, upl, regAtRelease,
                   keyErr, notUpload, rvars, lvars>>

\* the command closes the file: close(2) returns once the release request
\* is queued for the FUSE worker
FileClose ==
    /\ ufile.st = "open" /\ cmdSt = "exec"
    /\ ufile' = [ufile EXCEPT !.st = "closing"]
    /\ UNCHANGED <<fpc, regLock, loopq, cmdSt, msgKind, wres, upl, regAtRelease,
                   acclog, keyErr, notUpload, rvars, lvars>>

\* release: if self.data and not self.efbig_hit: with the lock:
\* if self.uuid in discord_upload_callbacks
FuseReleaseTest ==
    /\ ufile.st = "closing" /\ fpc = "idle"
    /\ IF ReleaseWants(ufile)
       THEN /\ acclog' = acclog \cup {[by |-> "fuse", op |-> "in", holder |-> "fuse"]}
            /\ IF ValidPath(registry, 1)
               THEN /\ fpc' = "rel_call" /\ regLock' = "fuse"
                    /\ UNCHANGED ufile
               ELSE /\ ufile' = [ufile EXCEPT !.st = "released"]
                    /\ UNCHANGED <<fpc, regLock>>
       ELSE /\ ufile' = [ufile EXCEPT !.st = "released"]
            /\ UNCHANGED <<fpc, regLock, acclog>>
    /\ regAtRelease' = SessionLive
    /\ UNCHANGED <<loopq, cmdSt, msgKind, wres, upl, keyErr,
                   notUpload, rvars, lvars>>

\* discord_upload_callbacks[self.uuid](self.data): upload_cb hands
\* _upload_cb to the loop with call_soon_threadsafe; a missing entry raises
\* KeyError in the FUSE worker
FuseReleaseCall ==
    /\ fpc = "rel_call"
    /\ IF ValidPath(registry, 1)
       THEN /\ upl' = Append(upl, ufile.data)
            /\ loopq' = Append(loopq, "upload_cb")
            /\ UNCHANGED keyErr
       ELSE /\ keyErr' = TRUE
            /\ UNCHANGED <<upl, loopq>>
    /\ regAtRelease' = SessionLive
    /\ acclog' = acclog \cup {[by |-> "fuse", op |-> "getitem", holder |-> regLock]}
    /\ fpc' = "idle" /\ regLock' = "free"
    /\ ufile' = [ufile EXCEPT !.st = "released"]
    /\ UNCHANGED <<cmdSt, msgKind, wres, notUpload, rvars, lvars>>

\* run() is left: finally: del discord_upload_callbacks[str(self.uuid)]
SessionEnd ==
    /\ SessionLive
    /\ registry' = RunFinally(registry, 1)
    /\ acclog' = acclog \cup {[by |-> "session", op |-> "del", holder |-> regLock]}
    /\ UNCHANGED <<ufile, fpc, regLock, loopq, cmdSt, msgKind, wres, upl,
                   regAtRelease, keyErr, notUpload, rvars, lother>>

\* the command is over and the shell sends RESP_PROMPT: cmdsock becomes
\* readable
ShellPromptPkt ==
    /\ cmdSt = "exec" /\ ufile.st # "open"
    /\ cmdSt' = "prompted"
    /\ loopq' = Append(loopq, "cmd_readable")
    /\ UNCHANGED <<ufile, fpc, regLock, msgKind, wres, upl, regAtRelease, acclog,
                   keyErr, notUpload, rvars, lvars>>

\* the event loop runs the first callback of its ready queue; the upload
\* task starts with bot_response(UPLOAD), on_cmd_ptm wakes up to
\* handle_cmd(RESP_PROMPT) and its bot_response(PROMPT)
LoopStep ==
    /\ SessionLive /\ loopq # <<>>
    /\ loopq' = Tail(loopq) \o Scheduled(Head(loopq))
    /\ IF Head(loopq) = "upload_task"
       THEN Enter(1) /\ UNCHANGED msgKind
       ELSE IF Head(loopq) = "cmd_wake"
       THEN Enter(0) /\ msgKind' = "PROMPT"
       ELSE UNCHANGED <<brlHolder, brlWaiters, sst, msgKind>>
    /\ UNCHANGED <<ufile, fpc, regLock, cmdSt, wres, upl, regAtRelease, acclog,
                   keyErr, notUpload, now, last_ts, swake, wlog, nDemuxMsgs, lvars>>

\* time passes while a sender sleeps in the rate limiter
UploadTick == (\E t \in Senders : sst[t] = "sleep" /\ now < swake[t]) /\ Tick

UploadLimitStep(t) == SessionLive /\ RateLimit(t)
UploadWake(t) == SessionLive /\ Wake(t)
UploadDrained(t) == SessionLive /\ Drained(t)

NextUpload ==
    \/ FuseOpen \/ FuseWrite \/ FileClose \/ FuseReleaseTest \/ FuseReleaseCall
    \/ SessionEnd \/ ShellPromptPkt \/ LoopStep \/ UploadTick
    \/ \E t \in Senders : UploadLimitStep(t) \/ UploadWake(t) \/ UploadDrained(t)

SpecUpload == Init /\ [][NextUpload]_vars

\* ============================================================ SpecLife
\* handle_connection and Comm._run on one TCP connection: the handshake,
\* the set-up of the sandbox step by step (each step may fail), the live
\* session until one of its tasks ends with an exception, the finally
\* block of _run, and the restart loop.
evars == <<hvars, cvars, svars, dvars, ivars, rvars, tvars, uvars, kvars>>

\* the client writes a line
ClientSend ==
    /\ lpc # "closed" /\ ~clientEof /\ nSent < MaxClientLines
    /\ \E l \in ClientLines : clientIn' = Append(clientIn, l)
    /\ nSent' = nSent + 1
    /\ silent' = FALSE
    /\ UNCHANGED <<lpc, lexc, fd, closes, child, sig, ltasks, tdLeft, clientEof, clientOut,
                   runExists, overlay, start, registry, nComm, accepted, fsOps, nFork, failedAt, launched,
                   ended, evars>>

\* the client closes its side
ClientClose ==
    /\ lpc # "closed" /\ ~clientEof
    /\ clientEof' = TRUE
    /\ silent' = FALSE
    /\ UNCHANGED <<lpc, lexc, fd, closes, child, sig, ltasks, tdLeft, clientIn, clientOut,
                   nSent, runExists, overlay, start, registry, nComm, accepted, fsOps, nFork, failedAt,
                   launched, ended, evars>>

\* an exception leaves _run before its second try block: nothing is
\* cleaned up but what the finally of the set-up block closes
LeaveRun(e, step) ==
    /\ lexc' = e
    /\ lpc' = "unwind"
    /\ failedAt' = step
    /\ ended' = [exc |-> e, nComm |-> nComm, nFork |-> nFork]

\* await asyncio.wait_for(read_idname(), 1): a line is there
HandshakeRead ==
    /\ lpc = "handshake" /\ clientIn # <<>>
    /\ clientIn' = Tail(clientIn)
    /\ IF ReadIdname(Head(clientIn)) = "none"
       THEN /\ accepted' = accepted \cup {Head(clientIn)}
            /\ start' = [of |-> nComm, id |-> Head(clientIn).idname,
                         reinit |-> Head(clientIn).reinit,
                         existed |-> runExists[Head(clientIn).idname],
                         recreated |-> FALSE]
            /\ IF NeedsRoot(Head(clientIn).reinit, runExists[Head(clientIn).idname])
               THEN lpc' = "rootfs" /\ UNCHANGED <<lexc, failedAt, ended>>
               ELSE IF overlay[Head(clientIn).idname].mounted
               THEN lpc' = "memfd" /\ UNCHANGED <<lexc, failedAt, ended>>
               ELSE LeaveRun("AssertionError", "rootfs")
       ELSE /\ LeaveRun(HandshakeRaise(ReadIdname(Head(clientIn))), "none")
            /\ UNCHANGED <<accepted, start>>
    /\ UNCHANGED <<fd, closes, child, sig, ltasks, tdLeft, clientEof, clientOut, nSent,
                   runExists, overlay, registry, nComm, fsOps, nFork, launched, silent, evars>>

\* readline returns b'' (the client is gone), or no line comes within 1 s
HandshakeNoLine ==
    /\ lpc = "handshake" /\ clientIn = <<>>
    /\ LeaveRun(HandshakeRaise(IF clientEof THEN "BotClosedException" ELSE "TimeoutError"),
                "none")
    /\ UNCHANGED <<fd, closes, child, sig, ltasks, tdLeft, clientIn, clientEof, clientOut,
                   nSent, runExists, overlay, start, registry, nComm, accepted, fsOps, nFork, launched,
                   silent, evars>>

\* if reinit or not run_exists: umount2, mkdir, mount tmpfs, mkdir x3, mount
\* overlay; on OSError umount2 and raise: the old mount is detached by
\* then, and the directory is there unless its mkdir failed
RootFs ==
    /\ lpc = "rootfs"
    /\ fsOps' = fsOps + 1
    /\ start' = [start EXCEPT !.recreated = TRUE]
    /\ \/ /\ runExists' = [runExists EXCEPT ![start.id] = TRUE]
          /\ overlay' = [overlay EXCEPT ![start.id] = FreshOverlay]
          /\ lpc' = "memfd"
          /\ UNCHANGED <<lexc, failedAt, ended>>
       \/ /\ LeaveRun("OSError", "rootfs")
          /\ overlay' = [overlay EXCEPT ![start.id] = NoOverlay]
          /\ \E e \in {runExists[start.id], TRUE} :
                runExists' = [runExists EXCEPT ![start.id] = e]
    /\ UNCHANGED <<registry, fd, closes, child, sig, ltasks, tdLeft, clientIn, clientEof, clientOut,
                   nSent, nComm, accepted, nFork, launched, silent, evars>>

\* One step of the set-up block (lines 897-933): it succeeds and opens the
\* descriptors in opens, or raises OSError and the finally of the block runs.
SetupStep(at, opens, to) ==
    /\ lpc = at
    /\ \/ /\ fd' = [f \in FdNames |-> IF f \in opens THEN "open" ELSE fd[f]]
          /\ lpc' = to
          /\ UNCHANGED <<lexc, closes, failedAt, ended>>
       \/ /\ fd' = SetupFinally(fd)
          /\ closes' = SetupCloses(fd, closes)
          /\ LeaveRun("OSError", at)
    /\ UNCHANGED <<sig, ltasks, tdLeft, clientIn, clientEof, clientOut, nSent, runExists, overlay, start, registry,
                   nComm, accepted, fsOps, launched, silent, evars>>

\* exe_fd = os.memfd_create('osaibot-bash')
Memfd == SetupStep("memfd", {"exe_fd"}, "copy") /\ UNCHANGED <<child, nFork>>

\* open('/home/user/bash') and the os.sendfile loop
CopyShell == SetupStep("copy", {}, "socketpair") /\ UNCHANGED <<child, nFork>>

\* self.cmdsock, cmdsockjail = socket.socketpair(...)
SocketPair ==
    SetupStep("socketpair", {"cmdsock", "cmdsockjail"}, "fork") /\ UNCHANGED <<child, nFork>>

\* bwrap_pid, self.ptm_fd = pty.fork(): the child execs the launcher
PtyFork ==
    /\ SetupStep("fork", {"ptm_fd"}, "pidfd")
    /\ child' = IF lpc' = "pidfd" THEN [child EXCEPT !["bwrap"] = "running"] ELSE child
    /\ nFork' = IF lpc' = "pidfd" THEN nFork + 1 ELSE nFork

\* fcntl on ptm_fd, self.bwrap_pidfd = os.pidfd_open(bwrap_pid, 0); then the
\* finally of the block, tasks = {self.killer}, and the on_exit_kill task
\* of the launcher
PidfdOpen ==
    /\ lpc = "pidfd"
    /\ \/ /\ fd' = SetupFinally([fd EXCEPT !["bwrap_pidfd"] = "open"])
          /\ closes' = SetupCloses(fd, closes)
          /\ lpc' = "init1"
          /\ launched' = TRUE
          /\ ltasks' = [ltasks EXCEPT !["killer"] = "pending",
                                      !["on_exit_kill_bwrap"] = "pending"]
          /\ UNCHANGED <<lexc, failedAt, ended>>
       \/ /\ fd' = SetupFinally(fd)
          /\ closes' = SetupCloses(fd, closes)
          /\ LeaveRun("OSError", "pidfd")
          /\ UNCHANGED <<launched, ltasks>>
    /\ UNCHANGED <<child, sig, tdLeft, clientIn, clientEof, clientOut, nSent, runExists, overlay, start, registry,
                   nComm, accepted, fsOps, nFork, silent, evars>>

\* an exception inside the second try block of _run: its finally follows
Fail(e, step) ==
    /\ lexc' = e
    /\ lpc' = "teardown"
    /\ failedAt' = step

\* init_conn under wait_for(..., 1): one descriptor is received (the shell's
\* pidfd, then the network namespace), or the second passes or recv_fd
\* finds no descriptor
InitConn(at, f, to) ==
    /\ lpc = at
    /\ \/ /\ fd' = [fd EXCEPT ![f] = "open"]
          /\ child' = IF f = "bash_pidfd" THEN [child EXCEPT !["bash"] = "running"]
                      ELSE child
          /\ lpc' = to
          /\ UNCHANGED <<lexc, failedAt>>
       \/ /\ \E e \in {"TimeoutError", "RuntimeError"} : Fail(e, "init_conn")
          /\ UNCHANGED <<fd, child>>
    /\ UNCHANGED <<closes, sig, ltasks, tdLeft, clientIn, clientEof, clientOut, nSent,
                   runExists, overlay, start, registry, nComm, accepted, fsOps, nFork, launched, silent,
                   ended, evars>>

InitConnShell == InitConn("init1", "bash_pidfd", "init2")

InitConnNetns == InitConn("init2", "netnsfd", "spawn")

\* slirp4netns_pid = os.spawnlp(os.P_NOWAIT, 'slirp4netns', ...)
SpawnHelper ==
    /\ lpc = "spawn"
    /\ \/ /\ child' = [child EXCEPT !["slirp4netns"] = "running"]
          /\ nFork' = nFork + 1
          /\ lpc' = "helperfd"
          /\ UNCHANGED <<lexc, failedAt>>
       \/ /\ Fail("OSError", "spawn")
          /\ UNCHANGED <<child, nFork>>
    /\ UNCHANGED <<fd, closes, sig, ltasks, tdLeft, clientIn, clientEof, clientOut, nSent,
                   runExists, overlay, start, registry, nComm, accepted, fsOps, launched, silent, ended, evars>>

\* self.slirp4netns_pidfd = os.pidfd_open(slirp4netns_pid); then the tasks
\* on_exit_kill(slirp4netns_pidfd), on_cmd_ptm (with its two reader tasks)
\* and on_botmsg are created and gathered
HelperPidfd ==
    /\ lpc = "helperfd"
    /\ \/ /\ fd' = [fd EXCEPT !["slirp4netns_pidfd"] = "open"]
          /\ ltasks' = [t \in AllTasks |->
                          IF t \in {"on_exit_kill_slirp4netns", "on_cmd_ptm", "on_botmsg",
                                    "ptm_reader", "cmd_reader"}
                          THEN "pending" ELSE ltasks[t]]
          /\ lpc' = "live"
          /\ UNCHANGED <<lexc, failedAt>>
       \/ /\ Fail("OSError", "helperfd")
          /\ UNCHANGED <<fd, ltasks>>
    /\ UNCHANGED <<closes, child, sig, tdLeft, clientIn, clientEof, clientOut, nSent,
                   runExists, overlay, start, registry, nComm, accepted, fsOps, nFork, launched, silent,
                   ended, evars>>

\* the launcher exits: its pidfd becomes readable and the on_exit_kill task
\* raises RestartException (seen by _run once it gathers its tasks)
LauncherExit ==
    /\ lpc \in {"init1", "init2", "spawn", "helperfd", "live"}
    /\ child["bwrap"] = "running" /\ ltasks["on_exit_kill_bwrap"] = "pending"
    /\ child' = [child EXCEPT !["bwrap"] = "exited"]
    /\ ltasks' = [ltasks EXCEPT !["on_exit_kill_bwrap"] = "RestartException"]
    /\ UNCHANGED <<lpc, lexc, fd, closes, sig, tdLeft, clientIn, clientEof, clientOut, nSent,
                   runExists, overlay, start, registry, nComm, accepted, fsOps, nFork, failedAt, launched,
                   silent, ended, evars>>

\* the network helper exits
HelperExit ==
    /\ lpc = "live"
    /\ child["slirp4netns"] = "running" /\ ltasks["on_exit_kill_slirp4netns"] = "pending"
    /\ child' = [child EXCEPT !["slirp4netns"] = "exited"]
    /\ ltasks' = [ltasks EXCEPT !["on_exit_kill_slirp4netns"] = "RestartException"]
    /\ UNCHANGED <<lpc, lexc, fd, closes, sig, tdLeft, clientIn, clientEof, clientOut, nSent,
                   runExists, overlay, start, registry, nComm, accepted, fsOps, nFork, failedAt, launched,
                   silent, ended, evars>>

\* What ends on_cmd_ptm: an empty packet (decode_cmd raises RestartException
\* in the reader task and the loop re-raises it), an empty PTY read, or a
\* packet with a tag handle_cmd does not know (a new reader task was
\* created before handle_cmd raised).
CmdPtmEnds ==
    /\ lpc = "live" /\ ltasks["on_cmd_ptm"] = "pending"
    /\ \/ ltasks' = [ltasks EXCEPT !["cmd_reader"] = "RestartException",
                                   !["on_cmd_ptm"] = "RestartException"]
       \/ ltasks' = [ltasks EXCEPT !["ptm_reader"] = "done",
                                   !["on_cmd_ptm"] = "RestartException"]
       \/ ltasks' = [ltasks EXCEPT !["on_cmd_ptm"] = "AssertionError"]
    /\ UNCHANGED <<lpc, lexc, fd, closes, child, sig, tdLeft, clientIn, clientEof, clientOut,
                   nSent, runExists, overlay, start, registry, nComm, accepted, fsOps, nFork, failedAt,
                   launched, silent, ended, evars>>

\* on_cmd_ptm handles the first RESP_PROMPT of the shell: the client
\* receives the PROMPT message
PromptSent ==
    /\ lpc = "live" /\ ltasks["on_cmd_ptm"] = "pending" /\ clientOut = <<>>
    /\ clientOut' = <<"PROMPT">>
    /\ UNCHANGED <<lpc, lexc, fd, closes, child, sig, ltasks, tdLeft, clientIn, clientEof,
                   nSent, runExists, overlay, start, registry, nComm, accepted, fsOps, nFork, failedAt,
                   launched, silent, ended, evars>>

\* What on_botmsg does with the line readline returned.
BotLine(line) ==
    IF line.type = "empty" THEN "BotClosedException"
    ELSE IF line.type = "notjson" THEN "JSONDecodeError"
    ELSE IF line.type \in {"INPUT", "SIGNAL"} THEN "write"
    ELSE "AssertionError"

\* one turn of the loop of on_botmsg; the task also runs while the finally
\* block of _run waits for another task, until it is cancelled itself, and
\* a write task it makes then is in no set the finally block still reads
BotMsgRead ==
    /\ lpc \in {"live", "awaiting"} /\ ltasks["on_botmsg"] = "pending"
    /\ \/ /\ clientIn # <<>>
          /\ clientIn' = Tail(clientIn)
          /\ ltasks' = IF BotLine(Head(clientIn)) = "write"
                       THEN [ltasks EXCEPT ![IF lpc = "live" THEN "write"
                                             ELSE "late_write"] = "pending"]
                       ELSE [ltasks EXCEPT !["on_botmsg"] = BotLine(Head(clientIn))]
       \/ /\ clientIn = <<>> /\ clientEof
          /\ ltasks' = [ltasks EXCEPT !["on_botmsg"] = "BotClosedException"]
          /\ UNCHANGED clientIn
    /\ UNCHANGED <<lpc, lexc, fd, closes, child, sig, tdLeft, clientEof, clientOut, nSent,
                   runExists, overlay, start, registry, nComm, accepted, fsOps, nFork, failedAt, launched,
                   silent, ended, evars>>

\* a write task ends: its write is complete, or it raised and inner() set
\* the exception on self.killer
WriteEnds ==
    /\ lpc = "live" /\ ltasks["write"] = "pending"
    /\ \/ ltasks' = [ltasks EXCEPT !["write"] = "done"]
       \/ /\ ltasks["killer"] = "pending"
          /\ ltasks' = [ltasks EXCEPT !["write"] = "done", !["killer"] = "OSError"]
    /\ UNCHANGED <<lpc, lexc, fd, closes, child, sig, tdLeft, clientIn, clientEof, clientOut,
                   nSent, runExists, overlay, start, registry, nComm, accepted, fsOps, nFork, failedAt,
                   launched, silent, ended, evars>>

\* await asyncio.gather(*tasks) raises the exception of a task
GatherRaise ==
    /\ lpc = "live"
    /\ \E t \in GatherTasks : Raised(ltasks[t]) /\ lexc' = ltasks[t]
    /\ lpc' = "teardown"
    /\ UNCHANGED <<fd, closes, child, sig, ltasks, tdLeft, clientIn, clientEof, clientOut,
                   nSent, runExists, overlay, start, registry, nComm, accepted, fsOps, nFork, failedAt,
                   launched, silent, ended, evars>>

\* on_cmd_ptm handles a PTY read or a packet while the finally block of
\* _run waits for another task: the reader task it creates (gen_ptm_task,
\* gen_cmd_task) is not in the set the finally block iterates over
CmdPtmDispatch ==
    /\ lpc = "awaiting" /\ ltasks["on_cmd_ptm"] = "pending"
    /\ ltasks["late_reader"] = "none"
    /\ ltasks' = [ltasks EXCEPT !["late_reader"] = "pending"]
    /\ UNCHANGED <<lpc, lexc, fd, closes, child, sig, tdLeft, clientIn, clientEof,
                   clientOut, nSent, runExists, overlay, start, registry, nComm, accepted, fsOps, nFork,
                   failedAt, launched, silent, ended, evars>>

\* finally: for task in self.write_tasks: cancel; then the loop over
\* tasks | self.next_cmd_ptm begins (the set is built once).  Awaiting a
\* task that is done, or the cancelled future self.killer, returns at
\* once; the turns of the loop that wait are those of the pending tasks.
TeardownBegin ==
    /\ lpc = "teardown"
    /\ ltasks' = CancelPending(ltasks, {"write", "killer"})
    /\ tdLeft' = {t \in TaskNames \ {"write", "killer"} : ltasks[t] = "pending"}
    /\ lpc' = "awaiting"
    /\ UNCHANGED <<lexc, fd, closes, child, sig, clientIn, clientEof, clientOut,
                   nSent, runExists, overlay, start, registry, nComm, accepted, fsOps, nFork, failedAt,
                   launched, silent, ended, evars>>

\* one turn of that loop that waits, in the order the set yields its
\* tasks: if not task.done(): task.cancel(); await task
TeardownAwait ==
    /\ lpc = "awaiting"
    /\ \E t \in tdLeft :
          /\ ltasks' = CancelPending(ltasks, {t})
          /\ tdLeft' = tdLeft \ {t}
    /\ UNCHANGED <<lpc, lexc, fd, closes, child, sig, clientIn, clientEof, clientOut,
                   nSent, runExists, overlay, start, registry, nComm, accepted, fsOps, nFork, failedAt,
                   launched, silent, ended, evars>>

\* the rest of the finally block: signal and close the pidfds, close
\* netnsfd, cmdsock and ptm_fd; then except RestartException: pass lets
\* run() return, and any other exception goes on
Teardown ==
    /\ lpc = "awaiting" /\ tdLeft = {}
    /\ sig' = TeardownSignals(fd, sig)
    /\ fd' = [f \in FdNames |-> IF f \in TeardownCloses(fd) THEN "closed" ELSE fd[f]]
    /\ closes' = [f \in FdNames |-> IF f \in TeardownCloses(fd) THEN closes[f] + 1
                                    ELSE closes[f]]
    /\ lexc' = IF Caught(lexc) THEN "none" ELSE lexc
    /\ ended' = IF lexc = "RestartException" THEN ended
                ELSE [exc |-> lexc, nComm |-> nComm, nFork |-> nFork]
    /\ silent' = (Caught(lexc) /\ clientIn = <<>> /\ ~clientEof)
    /\ lpc' = "unwind"
    /\ UNCHANGED <<child, ltasks, tdLeft, clientIn, clientEof, clientOut, nSent,
                   runExists, overlay, start, registry, nComm, accepted, fsOps, nFork, failedAt, launched, evars>>

\* run() returned: its finally removes the session from the registry; the
\* loop of handle_connection constructs the next Comm, whose run() registers
\* it, and its _run waits for the INIT line
Restart ==
    /\ lpc = "unwind" /\ LoopAgain(lexc) /\ nComm < MaxSessions
    /\ lpc' = "handshake" /\ lexc' = "none"
    /\ nComm' = nComm + 1
    /\ fd' = NoFds /\ closes' = NoCloses
    /\ child' = NoChildren /\ sig' = NoChildren /\ ltasks' = NoTasks
    /\ tdLeft' = {}
    /\ clientOut' = <<>> /\ failedAt' = "none" /\ launched' = FALSE
    /\ registry' = RunBegin(RunFinally(registry, nComm), nComm + 1)
    /\ UNCHANGED <<clientIn, clientEof, nSent, runExists, overlay, start, accepted, fsOps, nFork,
                   silent, ended, evars>>

\* an exception left run() through its finally, which removes the session
\* from the registry: except BotClosedException: pass; finally:
\* writer.close().  The Comm object is dropped, and a socket object closes
\* its descriptor when it is finalized.
CloseConnection ==
    /\ lpc = "unwind" /\ ~LoopAgain(lexc)
    /\ lpc' = "closed"
    /\ fd' = [fd EXCEPT !["cmdsock"] = IF @ = "open" THEN "closed" ELSE @]
    /\ registry' = RunFinally(registry, nComm)
    /\ UNCHANGED <<lexc, closes, child, sig, ltasks, tdLeft, clientIn, clientEof, clientOut,
                   nSent, runExists, overlay, start, nComm, accepted, fsOps, nFork, failedAt,
                   launched, silent, ended, evars>>

\* a command of the session writes below the overlay root
ShellWritesFile ==
    /\ lpc = "live" /\ child["bash"] = "running"
    /\ ~overlay[start.id].dirty
    /\ overlay' = [overlay EXCEPT ![start.id].dirty = TRUE]
    /\ UNCHANGED <<lpc, lexc, fd, closes, child, sig, ltasks, tdLeft, clientIn, clientEof,
                   clientOut, nSent, runExists, start, registry, nComm, accepted,
                   fsOps, nFork, failedAt, launched, silent, ended, evars>>

NextLife ==
    \/ ClientSend \/ ClientClose
    \/ HandshakeRead \/ HandshakeNoLine \/ RootFs \/ ShellWritesFile
    \/ Memfd \/ CopyShell \/ SocketPair \/ PtyFork \/ PidfdOpen
    \/ InitConnShell \/ InitConnNetns \/ SpawnHelper \/ HelperPidfd
    \/ LauncherExit \/ HelperExit \/ CmdPtmEnds \/ PromptSent
    \/ BotMsgRead \/ WriteEnds \/ GatherRaise \/ CmdPtmDispatch
    \/ TeardownBegin \/ TeardownAwait \/ Teardown \/ Restart \/ CloseConnection

SpecLife == Init /\ [][NextLife]_vars

\* ===================================================== properties of Spec
IsOutput(m) == m.type \in {"DIRECT", "DISPLAY"}

\* The DIRECT payloads of episode e, concatenated in send order.
RECURSIVE ConcatDirect(_, _)
ConcatDirect(s, e) ==
    IF s = <<>> THEN <<>>
    ELSE (IF s[1].type = "DIRECT" /\ s[1].ep = e THEN s[1].payload ELSE <<>>)
         \o ConcatDirect(Tail(s), e)

\* strip_sgr_osc of the specification: every SGR/OSC/bracketed-paste run
\* removed, left to right.
RECURSIVE StripRef(_)
StripRef(d) ==
    IF d = <<>> THEN <<>>
    ELSE IF d[1] = ESC /\ check_sgr_osc(d, 0).res = "yes"
         THEN StripRef(From(d, check_sgr_osc(d, 0).end))
         ELSE <<d[1]>> \o StripRef(Tail(d))

\* A stream without 0x08, 0x7F, and without an escape that is not a complete
\* SGR/OSC/bracketed-paste run.
RECURSIVE CleanRef(_)
CleanRef(d) ==
    IF d = <<>> THEN TRUE
    ELSE IF d[1] \in {BS, DEL} THEN FALSE
    ELSE IF d[1] = ESC
         THEN /\ check_sgr_osc(d, 0).res = "yes"
              /\ CleanRef(From(d, check_sgr_osc(d, 0).end))
         ELSE CleanRef(Tail(d))

RECURSIVE DropTrailingCr(_)
DropTrailingCr(d) ==
    IF d # <<>> /\ d[Len(d)] = CR THEN DropTrailingCr(SubSeq(d, 1, Len(d) - 1)) ELSE d

\* normalize of the specification: every CR LF becomes LF (repeatedly, as
\* the loop of handle_ptm does), trailing CRs are dropped.
NormalizeRef(d) == DropTrailingCr(ReplaceCrLf(d))

\* C1 (as stated): when a RESP_PROMPT has ended an episode whose PTY stream
\* rawB holds no 0x08, no 0x7F and only SGR/OSC/bracketed-paste escapes, the
\* DIRECT payloads of the episode, concatenated in send order, are
\* normalize(strip_sgr_osc(remove_nul(rawB))), however rawB was split into
\* reads and wherever timer flushes fell.
C1_DirectEqualsNormalized ==
    (epDone /\ ~epMulti /\ CleanRef(RemoveNul(rawB)))
        => ConcatDirect(sent, ep) = Decode(NormalizeRef(StripRef(RemoveNul(rawB))))

\* C2: every DIRECT message handed to bot_response, under any flush type,
\* has a payload of at most DirectLimit characters.
C2_DirectWithinLimit ==
    \A i \in 1..Len(sent) :
        sent[i].type = "DIRECT" => Len(sent[i].payload) <= DirectLimit

\* C2 witness: a read alone (IF_NECESSARY) emitted a full-length DIRECT,
\* which only the length check does, and the rest went out in the forced
\* drain.
C2_Witness ==
    \E i, j \in 1..Len(sent) :
        /\ i < j
        /\ sent[i].type = "DIRECT" /\ sent[i].ft = IF_NECESSARY
        /\ Len(sent[i].payload) = DirectLimit
        /\ sent[j].type = "DIRECT" /\ sent[j].ft = FORCED

FirstIsDisplay(at) == Len(sent) > at => sent[at + 1].type = "DISPLAY"

\* no DIRECT after index at that has no PROMPT message between
NoDirectUntilPrompt(at) ==
    \A j \in (at + 1)..Len(sent) :
        sent[j].type = "DIRECT" => \E k \in (at + 1)..(j - 1) : sent[k].type = "PROMPT"

NoTriggerByte(text) == \A k \in 1..Len(text) : text[k] \notin {BS, DEL, ESC}

\* C3 (amended): a promotion trigger never reaches the client in a DIRECT
\* message; after the switch to IN_EXEC_TERMEMU the buffered text is gone
\* (pending_out is empty), and as long as no RESP_BEGIN packet is handled
\* before the next PROMPT message, the first message after the switch is a
\* DISPLAY and no DIRECT precedes that PROMPT message.
C3_PromotionUntilPromptOrBegin ==
    /\ \A i \in 1..Len(sent) : sent[i].type = "DIRECT" => NoTriggerByte(sent[i].payload)
    /\ term_state = IN_EXEC_TERMEMU => pending_out = <<>>
    /\ promoLive => term_state = IN_EXEC_TERMEMU
    /\ (promoAt >= 0 /\ ~promoBegun) =>
            FirstIsDisplay(promoAt) /\ NoDirectUntilPrompt(promoAt)

\* C3 witness: after a switch caused by 0x7F, a DISPLAY was the first
\* message and the PROMPT message followed it.
C3_Witness ==
    /\ promoAt >= 0 /\ ~promoBegun
    /\ Contains(rawB, DEL)
    /\ Len(sent) >= promoAt + 2
    /\ sent[promoAt + 1].type = "DISPLAY"
    /\ sent[promoAt + 2].type = "PROMPT"

\* C3 (as stated): after a switch to IN_EXEC_TERMEMU the first message is a
\* DISPLAY and no DIRECT is emitted before the next PROMPT message.
C3_PromotionUntilPrompt ==
    promoAt >= 0 => FirstIsDisplay(promoAt) /\ NoDirectUntilPrompt(promoAt)

\* C4: a PROMPT message comes after every DIRECT and DISPLAY of the episode
\* it ends: any DIRECT or DISPLAY sent after a PROMPT message belongs to a
\* later episode, and once the RESP_PROMPT is handled nothing is left to
\* flush (no flush is awaited, and pending_out holds at most an escape run
\* that could not be decided).
C4_DrainBeforePrompt ==
    /\ \A i, j \in 1..Len(sent) :
          (i < j /\ sent[i].type = "PROMPT" /\ IsOutput(sent[j]))
              => sent[j].ep > sent[i].ep
    /\ term_state = IN_PROMPT =>
          ~has_flush_wait /\ (pending_out = <<>> \/ pending_out[1] = ESC)

\* C4 witness: the forced drain of a RESP_PROMPT emitted a DIRECT, and the
\* PROMPT message is the next message.
C4_Witness ==
    \E i \in 1..(Len(sent) - 1) :
        /\ sent[i].type = "DIRECT" /\ sent[i].ft = FORCED
        /\ sent[i + 1].type = "PROMPT" /\ sent[i + 1].ep = sent[i].ep

C19_BufferEmptyAtPrompt ==
    (exc = "none" /\ term_state \in {IN_PROMPT, BAD}) => pending_out = <<>>

\* C20: while a command executes, the text fed to the renderer since the
\* RESP_BEGIN that created it is the PTY bytes read since then, without
\* the NULs, each once and in read order, whatever handle_ptm did with
\* them (buffered, sent as DIRECT, stripped, dropped on promotion).
C20_FedOnce == term_state \in Exec => te.fed = Decode(RemoveNul(rawB))

\* Three reads: a byte that is buffered and taken back from pending_out by
\* the next calls, a NUL, and the erase byte that drops the buffer.
C20_Witness ==
    /\ term_state = IN_EXEC_TERMEMU /\ nReads = 3
    /\ rawB = <<97, NUL, DEL>>
    /\ te.fed = Decode(<<97, DEL>>)

\* C21: a renderer exists exactly while the mode is IN_EXEC_DIRECT or
\* IN_EXEC_TERMEMU: RESP_BEGIN creates it, RESP_PROMPT destroys it, and no
\* byte read in IN_PROMPT or BAD is fed to one.
C21_RendererOnlyWhileExecuting ==
    exc = "none" => (te.on <=> term_state \in Exec)

\* C22: every step that changes the mode is the handling of RESP_PROMPT
\* (to IN_PROMPT), the handling of RESP_BEGIN (to IN_EXEC_DIRECT), or a
\* PTY read handled in IN_EXEC_DIRECT (to IN_EXEC_TERMEMU); BAD is not
\* entered again, and a timer flush leaves the mode as it is.
C22_ModeTransitions ==
    [][term_state' # term_state =>
          /\ term_state' # BAD
          /\ \/ term_state' = IN_PROMPT /\ nCmds' = nCmds + 1 /\ ep' = ep
             \/ term_state' = IN_EXEC_DIRECT /\ nCmds' = nCmds + 1 /\ ep' = ep + 1
             \/ /\ term_state' = IN_EXEC_TERMEMU /\ term_state = IN_EXEC_DIRECT
                /\ nReads' = nReads + 1 /\ nCmds' = nCmds]_vars

\* The three changes have happened in one session, and a timer flush in
\* IN_EXEC_TERMEMU sent a DISPLAY in between.
C22_Witness ==
    /\ term_state = IN_PROMPT /\ promoAt >= 0 /\ ep = 1 /\ epDone
    /\ \E i \in 1..Len(sent) : sent[i].type = "DISPLAY" /\ sent[i].ft = HIT_TIMER

\* C24: no PROMPT message has 0x1B, CR, 0x08 or 0x7F in its payload.
C24_PromptPayloadClean ==
    \A i \in 1..Len(sent) :
        sent[i].type = "PROMPT" =>
            \A k \in 1..Len(sent[i].payload) :
                sent[i].payload[k] \notin {ESC, CR, BS, DEL}

\* C31: in IN_PROMPT and in BAD, handle_ptm with any data and any flush
\* type emits nothing, empties pending_out, keeps the mode and leaves
\* has_flush_wait false; no step taken in these modes emits a DIRECT or a
\* DISPLAY message.
FlushTypes == {IF_NECESSARY, HIT_TIMER, FORCED}

C31_IdleDiscards ==
    (exc = "none" /\ term_state \in {IN_PROMPT, BAD}) =>
       \A data \in ReadChunks \cup {<<>>} : \A ft \in FlushTypes :
          /\ HandlePtm(Core, data, ft).out = <<>>
          /\ HandlePtm(Core, data, ft).pending_out = <<>>
          /\ HandlePtm(Core, data, ft).term_state = term_state
          /\ ~HandlePtm(Core, data, ft).has_flush_wait
          /\ HandlePtm(Core, data, ft).exc = "none"

C31_IdleStepSilent ==
    term_state \in {IN_PROMPT, BAD} =>
       \A i \in (Len(sent) + 1)..Len(sent') :
          sent'[i].type \notin {"DIRECT", "DISPLAY"}

C31_NoOutputWhileIdle == []C31_IdleDiscards /\ [][C31_IdleStepSilent]_vars

\* a read was handled in IN_PROMPT after an execution: the emulator was fed
\* more than the execution produced, and nothing is pending
C31_Witness ==
    /\ term_state = IN_PROMPT /\ exc = "none" /\ te.on
    /\ te.fed # Decode(RemoveNul(rawB))
    /\ pending_out = <<>> /\ ~has_flush_wait
    /\ \A i \in 1..Len(sent) : sent[i].type = "PROMPT"

\* C32.  A read handled in IN_EXEC_DIRECT that does not promote: the bytes
\* handle_ptm works on (pending_out and the data without its NULs), the
\* part of them before an escape that cannot be decided yet, that part
\* without its SGR/OSC runs and with CR LF as LF, and the undecided rest.
ReadInDirect ==
    /\ nReads' = nReads + 1 /\ exc' = "none"
    /\ term_state = IN_EXEC_DIRECT /\ term_state' = IN_EXEC_DIRECT
ReadBuffer == pending_out \o RemoveNul(From(rawB', Len(rawB)))
ReadDecided ==
    IF ShouldSwitch(ReadBuffer).cut >= 0
    THEN Slice(ReadBuffer, 0, ShouldSwitch(ReadBuffer).cut) ELSE ReadBuffer
ReadUndecided ==
    IF ShouldSwitch(ReadBuffer).cut >= 0
    THEN From(ReadBuffer, ShouldSwitch(ReadBuffer).cut) ELSE <<>>
ReadNormalized == ReplaceCrLf(trim_sgr_osc(ReadDecided, TRUE).data)

\* C32 as stated: such a read emits a DIRECT message only when the
\* normalized buffer is over the limit; otherwise all the bytes received
\* are in pending_out in their order and has_flush_wait is set.
C32_KeepsAllBytes ==
    ReadInDirect =>
       IF Len(sent') > Len(sent) THEN Len(ReadNormalized) > DirectLimit
       ELSE pending_out' = ReadBuffer /\ has_flush_wait'

C32_BuffersEveryByte == [][C32_KeepsAllBytes]_vars

\* C32 amended: otherwise pending_out holds the normalized bytes followed
\* by the undecided escape, and has_flush_wait is set exactly when there
\* is a normalized byte.
C32_KeepsNormalized ==
    ReadInDirect =>
       IF Len(sent') > Len(sent) THEN Len(ReadNormalized) > DirectLimit
       ELSE /\ pending_out' = ReadNormalized \o ReadUndecided
            /\ has_flush_wait' <=> ReadNormalized # <<>>

C32_BuffersNormalized == [][C32_KeepsNormalized]_vars

\* two reads were buffered and the timer flush sent them as one message
C32_Witness ==
    /\ nReads = 2 /\ Len(sent) = 1 /\ exc = "none"
    /\ sent[1].type = "DIRECT" /\ sent[1].ft = HIT_TIMER
    /\ sent[1].payload = <<97, 97>>
    /\ pending_out = <<>> /\ term_state = IN_EXEC_DIRECT

\* C33: handle_ptm(b'', FORCED), called in any state the session can be in
\* between two handler calls, returns with has_flush_wait false; in
\* IN_EXEC_DIRECT it stays in that mode, leaves in pending_out only the
\* escape that cannot be decided yet, and has sent what precedes it
\* (normalized) as DIRECT messages of at most DirectLimit characters each;
\* the handling of RESP_PROMPT never fails its assertion.
ForcedDrain == HandlePtm(Core, <<>>, FORCED)

DecidedEnd(d) == IF ShouldSwitch(d).cut >= 0 THEN ShouldSwitch(d).cut ELSE Len(d)

RECURSIVE Payloads(_)
Payloads(out) ==
    IF out = <<>> THEN <<>> ELSE Head(out).payload \o Payloads(Tail(out))

C33_DrainLeaves ==
    exc = "none" =>
        /\ ForcedDrain.exc = "none"
        /\ ~ForcedDrain.has_flush_wait
        /\ term_state = IN_EXEC_DIRECT =>
              /\ ForcedDrain.term_state = IN_EXEC_DIRECT
              /\ ForcedDrain.pending_out = From(pending_out, DecidedEnd(pending_out))
              /\ \A i \in 1..Len(ForcedDrain.out) :
                    /\ ForcedDrain.out[i].type = "DIRECT"
                    /\ Len(ForcedDrain.out[i].payload) \in 1..DirectLimit
              /\ Payloads(ForcedDrain.out) =
                    Decode(ReplaceCrLf(trim_sgr_osc(
                        Slice(pending_out, 0, DecidedEnd(pending_out)), TRUE).data))

C33_PromptNoAssert == exc' # "AssertionError"

C33_ForcedDrain == []C33_DrainLeaves /\ [][C33_PromptNoAssert]_vars

\* RESP_PROMPT was handled with text and an undecided escape buffered, and
\* with a flush deadline set: the text was sent by the forced drain, the
\* escape stayed, the deadline is gone.
C33_Witness ==
    /\ term_state = IN_PROMPT /\ exc = "none" /\ ~has_flush_wait
    /\ pending_out = <<ESC>> /\ Len(sent) = 2
    /\ sent[1].type = "DIRECT" /\ sent[1].ft = FORCED /\ sent[1].payload = <<LF, 97>>
    /\ sent[2].type = "PROMPT"

\* C37: between two handler calls, output that waits has a deadline: in
\* IN_EXEC_DIRECT with a byte in pending_out before the undecided escape,
\* and in IN_EXEC_TERMEMU with text fed to the renderer that no DISPLAY
\* message of this execution shows yet, has_flush_wait is true.
DisplayedAll ==
    \E i \in 1..Len(sent) :
        sent[i].type = "DISPLAY" /\ sent[i].ep = ep /\ sent[i].payload = te.fed

C37_WaitingHasDeadline ==
    exc = "none" =>
        /\ (term_state = IN_EXEC_DIRECT /\ DecidedEnd(pending_out) > 0) => has_flush_wait
        /\ (term_state = IN_EXEC_TERMEMU /\ ~DisplayedAll) => has_flush_wait

\* A DISPLAY was sent in this execution and a read came after it: the
\* snapshot is behind the renderer and the deadline is set.
C37_Witness ==
    /\ term_state = IN_EXEC_TERMEMU /\ has_flush_wait /\ exc = "none"
    /\ ~DisplayedAll
    /\ \E i \in 1..Len(sent) : sent[i].type = "DISPLAY" /\ sent[i].ep = ep

\* ================================================ properties of SpecDemux
\* C5 (as stated): when the loop handles a RESP_PROMPT packet it has handled
\* every PTY byte the shell wrote before sending it, and when it handles a
\* RESP_BEGIN packet it has handled no PTY byte written after it, whenever
\* the reads become ready.
C5_BytesBracketed ==
    \A i \in 1..Len(cmdLog) :
        /\ cmdLog[i].tag = RESP_PROMPT => cmdLog[i].handled >= cmdLog[i].before
        /\ cmdLog[i].tag = RESP_BEGIN => cmdLog[i].handled <= cmdLog[i].before

TieFirst(cmd) == IF cmd = RESP_PROMPT THEN "ptm" ELSE "cmd"
Other(src) == IF src = "ptm" THEN "cmd" ELSE "ptm"
TaskOf(src) == IF src = "ptm" THEN ptmTask ELSE cmdTask

\* C6: in an iteration in which both reader tasks were resolved, only one
\* task is handled: the PTY read if the packet is RESP_PROMPT, the packet
\* otherwise; the other task stays resolved for a later iteration.
C6_TiebreakOrder ==
    \A i \in 1..Len(tieLog) :
        LET t == tieLog[i]
            current == t.iter = iter
        IN /\ Len(t.handled) <= 1
           /\ (~current \/ pc = "top") => Len(t.handled) = 1
           /\ t.handled # <<>> => t.handled[1] = TieFirst(t.cmd)
           /\ (current /\ pc = "dispatch") => inDone = {TieFirst(t.cmd)}
           /\ (current /\ pc \in {"dispatch", "top"}) =>
                  /\ TaskOf(Other(TieFirst(t.cmd))).done
                  /\ TieFirst(t.cmd) = "ptm" => cmdTask.val.tag = t.cmd

\* C6 witness: a tie with RESP_PROMPT was settled for the PTY read, and a
\* tie with RESP_BEGIN in IN_PROMPT for the packet.
C6_Witness ==
    /\ \E i \in 1..Len(tieLog) :
          tieLog[i].cmd = RESP_PROMPT /\ tieLog[i].handled = <<"ptm">>
    /\ \E i \in 1..Len(tieLog) :
          /\ tieLog[i].cmd = RESP_BEGIN /\ tieLog[i].mode = IN_PROMPT
          /\ tieLog[i].handled = <<"cmd">>

\* C34: the loop has exactly one reader task per source that is outstanding
\* or completed and not handled yet (so two tasks of one source are never
\* in `done`, and 'assert src not in done_dict' holds); every byte read
\* from the PTY master and every packet read from the control socket is
\* either in the completed task of its source or was handled, once; and a
\* completed task, deferred by the tiebreaker or not, changes only by
\* being handled, so nothing later of its source is handled before it.
PtmCompleted == IF ptmTask.done THEN Len(ptmTask.val) ELSE 0
CmdCompleted == IF cmdTask.done THEN 1 ELSE 0

C34_Accounting ==
    /\ \A src \in {"ptm", "cmd"} : nTasks[src] = 1
    /\ nWritten = Len(ptyFlight) + Len(ptyQ) + PtmCompleted + ptmHandled
    /\ nPkts = Len(cmdQ) + CmdCompleted + Len(cmdLog)
    /\ \A i \in 1..(Len(cmdLog) - 1) : cmdLog[i].before <= cmdLog[i + 1].before

C34_HandledInTurn ==
    /\ ptmHandled' # ptmHandled => ptmTask.done
    /\ cmdLog' # cmdLog => cmdTask.done
    /\ (ptmTask.done /\ ptmTask' # ptmTask) =>
          /\ ptmTask' = Pending /\ "ptm" \in inDone
          /\ ptmHandled' = ptmHandled + Len(ptmTask.val)
    /\ (cmdTask.done /\ cmdTask' # cmdTask) =>
          /\ cmdTask' = Pending /\ "cmd" \in inDone
          /\ cmdLog' = Append(cmdLog, [tag |-> cmdTask.val.tag,
                                       before |-> cmdTask.val.before,
                                       handled |-> ptmHandled])

C34_OneReadPerSource == []C34_Accounting /\ [][C34_HandledInTurn]_vars

\* A RESP_PROMPT packet was deferred by the tiebreaker while the PTY read
\* was handled; it was handled in a later iteration, and the packet sent
\* after it was handled after it.
C34_Witness ==
    /\ Len(tieLog) >= 1 /\ tieLog[1].cmd = RESP_PROMPT
    /\ tieLog[1].handled = <<"ptm">> /\ iter > tieLog[1].iter
    /\ Len(cmdLog) = 2 /\ cmdLog[1].tag = RESP_PROMPT /\ cmdLog[2].tag = RESP_BEGIN
    /\ ptmHandled >= 1 /\ exc = "none"

\* ================================================= properties of SpecRate
InBotResponse(t) == sst[t] \in {"limit", "sleep", "drain"}

\* C7: two successive writes to the client are at least MinDelay apart,
\* whichever senders made them, and at most one sender at a time is between
\* the rate limiter and the end of its write.
C7_WritesSpaced ==
    /\ \A i \in 1..(Len(wlog) - 1) : wlog[i + 1].at - wlog[i].at >= MinDelay
    /\ Cardinality({t \in Senders : InBotResponse(t)}) <= 1

\* C7 witness: a message of on_cmd_ptm and an UPLOAD were written one
\* after the other, exactly MinDelay apart, while a third message waits for
\* the lock.
C7_Witness ==
    /\ Len(wlog) >= 2
    /\ wlog[1].sender # wlog[2].sender
    /\ {wlog[1].type, wlog[2].type} = {"DIRECT", "UPLOAD"}
    /\ wlog[2].at - wlog[1].at = MinDelay
    /\ \E t \in Senders : sst[t] = "lockwait"

\* ================================================ properties of SpecInput
\* What the specification says is written for a message read in mode.
ExpectedWrite(m) ==
    IF m.type = "INPUT" /\ m.mode = IN_PROMPT
    THEN [dest |-> "cmd", exec |-> FALSE, data |-> <<CMD_INPUT>> \o Encode(m.arg)]
    ELSE IF m.type = "INPUT" /\ m.mode \in {IN_EXEC_DIRECT, IN_EXEC_TERMEMU}
    THEN [dest |-> "ptm", exec |-> TRUE,
          data |-> Encode([i \in 1..Len(m.arg) |-> IF m.arg[i] = LF THEN CR ELSE m.arg[i]])]
    ELSE IF m.type = "SIGNAL" /\ m.mode \in {IN_EXEC_DIRECT, IN_EXEC_TERMEMU}
    THEN [dest |-> "cmd", exec |-> TRUE, data |-> <<CMD_SIGNAL>> \o PackInt32(m.arg)]
    ELSE [dest |-> "none", exec |-> FALSE, data |-> <<>>]

\* the bytes task i has delivered, in order
RECURSIVE Delivered(_, _)
Delivered(log, i) ==
    IF log = <<>> THEN <<>>
    ELSE (IF log[1].task = i THEN log[1].data ELSE <<>>) \o Delivered(Tail(log), i)

\* C8: every message is routed by the mode in which it was read: it
\* registers exactly the write the specification names for that mode (none
\* for SIGNAL in IN_PROMPT and for anything in BAD), every write task comes
\* from one message, and every byte delivered goes to the destination of
\* its task and is the next part of that task's data, so that no LF of an
\* INPUT reaches the PTY and no INPUT read in IN_PROMPT does.
C8_RoutedByMode ==
    /\ \A k \in 1..Len(msgLog) :
          LET m == msgLog[k]  w == ExpectedWrite(m)
          IN IF w.dest = "none" THEN m.task = 0
             ELSE /\ m.task \in 1..Len(wtasks)
                  /\ wtasks[m.task].dest = w.dest
                  /\ wtasks[m.task].exec = w.exec
                  /\ wtasks[m.task].data = w.data
    /\ \A i \in 1..Len(wtasks) :
          /\ Cardinality({k \in 1..Len(msgLog) : msgLog[k].task = i}) = 1
          /\ Delivered(outlog, i) = SubSeq(wtasks[i].data, 1, wtasks[i].pos)
    /\ \A e \in 1..Len(outlog) :
          /\ outlog[e].dest = wtasks[outlog[e].task].dest
          /\ outlog[e].dest = "ptm" => ~Contains(outlog[e].data, LF)

\* C8 witness: an INPUT read while executing reached the PTY whole, with CR
\* for its LF, and an INPUT read in IN_PROMPT reached the control socket as
\* CMD_INPUT.
C8_Witness ==
    \E a, b \in 1..Len(msgLog) :
        /\ msgLog[a].type = "INPUT" /\ msgLog[a].mode \in {IN_EXEC_DIRECT, IN_EXEC_TERMEMU}
        /\ msgLog[a].task # 0 /\ wtasks[msgLog[a].task].st = "done"
        /\ Contains(msgLog[a].arg, LF)
        /\ Contains(Delivered(outlog, msgLog[a].task), CR)
        /\ msgLog[b].type = "INPUT" /\ msgLog[b].mode = IN_PROMPT
        /\ msgLog[b].task # 0 /\ wtasks[msgLog[b].task].st = "done"
        /\ Delivered(outlog, msgLog[b].task)[1] = CMD_INPUT

\* C9: once a RESP_PROMPT has been handled, every exec-scoped write
\* registered before it is finished or cancelled and delivers nothing any
\* more (every byte of an exec-scoped write was delivered before the first
\* RESP_PROMPT after its registration); a write that is not exec-scoped is
\* never cancelled.
C9_ExecWritesCancelled ==
    /\ \A i \in 1..Len(wtasks) :
          /\ (wtasks[i].exec /\ wtasks[i].born < promptCount) => ~Live(wtasks[i])
          /\ ~wtasks[i].exec => wtasks[i].st # "cancelled"
    /\ \A e \in 1..Len(outlog) :
          wtasks[outlog[e].task].exec => outlog[e].epoch = wtasks[outlog[e].task].born

\* C9 witness: an INPUT to the PTY was partly written when the RESP_PROMPT
\* was handled; it is cancelled with the rest undelivered.
C9_Witness ==
    \E i \in 1..Len(wtasks) :
        /\ wtasks[i].exec /\ wtasks[i].dest = "ptm" /\ wtasks[i].st = "cancelled"
        /\ wtasks[i].pos > 0 /\ wtasks[i].pos < Len(wtasks[i].data)
        /\ wtasks[i].born < promptCount
        /\ term_state = IN_PROMPT

\* C10: at most one task per destination is writing, and it holds that
\* destination's lock; bytes reach a destination in the order in which
\* their messages were read; no byte is delivered while another task to the
\* same destination has written a part of its data and is neither finished
\* nor cancelled.
C10_WritesSerialized ==
    /\ \A i \in 1..Len(wtasks) :
          wtasks[i].st = "writing" => holder[wtasks[i].dest] = i
    /\ \A i, j \in 1..Len(wtasks) :
          (i # j /\ wtasks[i].st = "writing" /\ wtasks[j].st = "writing")
              => wtasks[i].dest # wtasks[j].dest
    /\ \A a, b \in 1..Len(outlog) :
          (a < b /\ outlog[a].dest = outlog[b].dest) => outlog[a].task <= outlog[b].task
    /\ \A e \in 1..Len(outlog) : ~outlog[e].overlap

\* C10 witness: two writes to the PTY, the second waiting for the lock while
\* the first is partly written.
C10_Witness ==
    \E i, j \in 1..Len(wtasks) :
        /\ i < j /\ wtasks[i].dest = "ptm" /\ wtasks[j].dest = "ptm"
        /\ wtasks[i].st = "writing" /\ wtasks[i].pos > 0
        /\ wtasks[j].st = "waiting"

\* a PROMPT message has been written to the client and no RESP_BEGIN has
\* been handled since
PromptOpen ==
    /\ exc = "none" /\ nBegin = 0
    /\ \E i \in 1..Len(sent) : sent[i].type = "PROMPT"

\* the last message read from the client
LastMsg(log) == log[Len(log)]

\* C39, first part: from the moment a PROMPT message has been written to the
\* client until the next RESP_BEGIN is handled, the mode is IN_PROMPT.
C39_PromptMode == PromptOpen => term_state = IN_PROMPT

\* C39, second part: an INPUT read while a PROMPT message is out and no
\* RESP_BEGIN has been handled since is read in IN_PROMPT and registers a
\* write of CMD_INPUT and its text to the control socket that the next
\* RESP_PROMPT does not cancel.
C39_ReadStep ==
    (PromptOpen /\ Len(msgLog') = Len(msgLog) + 1 /\ LastMsg(msgLog').type = "INPUT")
        => /\ LastMsg(msgLog').mode = IN_PROMPT
           /\ Len(wtasks') = Len(wtasks) + 1
           /\ LastMsg(msgLog').task = Len(wtasks')
           /\ wtasks'[Len(wtasks')].dest = "cmd"
           /\ ~wtasks'[Len(wtasks')].exec
           /\ wtasks'[Len(wtasks')].data = <<CMD_INPUT>> \o Encode(LastMsg(msgLog').arg)

\* C39, third part: the write of an INPUT read in IN_PROMPT is never
\* cancelled, whatever is handled afterwards, and every byte it delivers
\* goes to the control socket, none to the PTY.
C39_Delivery ==
    \A k \in 1..Len(msgLog) :
        (msgLog[k].type = "INPUT" /\ msgLog[k].mode = IN_PROMPT)
            => /\ msgLog[k].task \in 1..Len(wtasks)
               /\ wtasks[msgLog[k].task].st # "cancelled"
               /\ \A e \in 1..Len(outlog) :
                     outlog[e].task = msgLog[k].task => outlog[e].dest = "cmd"
               /\ Delivered(outlog, msgLog[k].task)
                     = SubSeq(<<CMD_INPUT>> \o Encode(msgLog[k].arg), 1,
                              wtasks[msgLog[k].task].pos)

\* C39: when a PROMPT message is written the mode is IN_PROMPT and stays so
\* until the next RESP_BEGIN is handled; an INPUT read in between is sent as
\* CMD_INPUT on the control socket and never written to the PTY.
C39_PromptInputToShell ==
    /\ []C39_PromptMode
    /\ [][C39_ReadStep]_vars
    /\ []C39_Delivery

\* C39 witness: an INPUT was read after a PROMPT message, the RESP_BEGIN of
\* the next command has been handled since, and the whole of the INPUT
\* reached the control socket as CMD_INPUT.
C39_Witness ==
    /\ Len(msgLog) >= 1 /\ msgLog[1].type = "INPUT" /\ msgLog[1].mode = IN_PROMPT
    /\ \E i \in 1..Len(sent) : sent[i].type = "PROMPT"
    /\ nBegin = 1 /\ term_state \in Exec
    /\ wtasks[1].st = "done" /\ wtasks[1].born = promptCount
    /\ outlog # <<>> /\ outlog[1].task = 1 /\ outlog[1].dest = "cmd"
    /\ nCmds = 2
    /\ Delivered(outlog, 1) = <<CMD_INPUT>> \o Encode(msgLog[1].arg)

\* ================================================= properties of SpecKill
\* C35: a write task or an upload task whose coroutine raises sets the
\* exception on self.killer, and the session then leaves asyncio.gather,
\* runs its finally block and ends; a task that is cancelled (by
\* RESP_PROMPT or by the finally block) ends without an exception, leaves
\* self.killer as it is, and the session goes on: self.killer holds an
\* exception only if a coroutine raised, and the session leaves
\* asyncio.gather only for that or for an exception of on_botmsg or
\* on_cmd_ptm.
KillerStates == {"pending", "cancelled"} \cup WriteErrors

C35_KillerIffFailure ==
    /\ wfailed # {} => Raised(killer)
    /\ Raised(killer) => wfailed # {}
    /\ sess # "live" => (wfailed # {} \/ botExc # "none" \/ exc # "none")
    /\ \A i \in 1..Len(wtasks) : wtasks[i].st = "cancelled" => i \notin wfailed
    /\ upTask = "cancelled" => 0 \notin wfailed
    /\ \A k \in KillerStates :
          InnerEnds("CancelledError", k) = [task |-> "done", killer |-> k]

C35_CancelKeepsSession ==
    ((\E i \in 1..Len(wtasks) : wtasks[i].st # "cancelled" /\ wtasks'[i].st = "cancelled")
        /\ sess = "live" /\ ~Raised(killer) /\ botExc = "none" /\ exc' = "none")
    => (sess' = "live" /\ killer' = killer)

C35_FailureEnds == (wfailed # {}) ~> (sess = "ended")

C35_FailureEndsSession ==
    []C35_KillerIffFailure /\ [][C35_CancelKeepsSession]_vars /\ C35_FailureEnds

\* RESP_PROMPT cancelled the first write task and the session went on; the
\* second write task failed, and the session has ended with the exception
\* on self.killer.
C35_Witness ==
    /\ sess = "ended" /\ killer \in WriteErrors /\ wfailed = {2}
    /\ botExc = "none" /\ exc = "none"
    /\ Len(wtasks) = 2 /\ wtasks[1].st = "cancelled" /\ wtasks[1].born < wtasks[2].born

\* ================================================== properties of SpecSgr
\* The recognized forms, as sequences from the ESC to their last byte.
IsParam(b) == b = 59 \/ (b >= 48 /\ b <= 57)

IsSgrSeq(s) ==
    /\ Len(s) >= 3 /\ s[1] = ESC /\ s[2] = 91 /\ s[Len(s)] = 109
    /\ \A k \in 3..(Len(s) - 1) : IsParam(s[k])

IsPasteSeq(s) ==
    s \in {<<ESC, 91, 63, 50, 48, 48, 52, 104>>, <<ESC, 91, 63, 50, 48, 48, 52, 108>>}

IsOscR(s) == s = <<ESC, 93, 82>>

\* ESC ] P and the 7 bytes that follow
IsOscP(s) == Len(s) = 3 + 7 /\ s[1] = ESC /\ s[2] = 93 /\ s[3] = 80

\* s[k] begins a terminator: BEL, or ESC followed by a backslash
TermAt(s, k) == s[k] = BEL \/ (s[k] = ESC /\ k < Len(s) /\ s[k + 1] = 92)

\* any other OSC: the string after the first byte of its body runs up to
\* the first terminator
IsOscOther(s) ==
    /\ Len(s) >= 4 /\ s[1] = ESC /\ s[2] = 93 /\ s[3] \notin {80, 82}
    /\ \/ s[Len(s)] = BEL /\ \A k \in 4..(Len(s) - 1) : ~TermAt(s, k)
       \/ /\ Len(s) >= 5 /\ s[Len(s) - 1] = ESC /\ s[Len(s)] = 92
          /\ \A k \in 4..(Len(s) - 2) : ~TermAt(s, k)

Recognized(s) ==
    IsSgrSeq(s) \/ IsPasteSeq(s) \/ IsOscR(s) \/ IsOscP(s) \/ IsOscOther(s)

\* what may complete a strict prefix of a recognized sequence
SgrExts ==
    UNION {{SubSeq(f, n, Len(f)) : n \in 2..Len(f)} : f \in SgrForms}
    \cup {<<109>>, <<BEL>>, <<92>>} \cup {[k \in 1..n |-> 48] : n \in 1..7}

\* C36: check_sgr_osc(d, i) on an ESC at index i returns (true, end) if and
\* only if d from i on begins with a recognized sequence (SGR, bracketed
\* paste on or off, OSC R, OSC P with 7 bytes, another OSC up to its
\* terminator), and end is then one past its last byte; it asks for more
\* input if and only if d from i on is a strict prefix of a recognized
\* sequence; it returns false in all other cases.
C36_Classifier ==
    sgrOut # NoCall =>
        LET rest == From(sgrIn.d, sgrIn.i)
            ends == {n \in 1..Len(rest) : Recognized(SubSeq(rest, 1, n))}
            prefix == ends = {} /\ \E ext \in SgrExts : Recognized(rest \o ext)
        IN /\ sgrOut.res = "yes" <=> ends # {}
           /\ sgrOut.res = "yes" => ends = {sgrOut.end - sgrIn.i}
           /\ sgrOut.res = "more" <=> prefix
           /\ sgrOut.res = "no" <=> (ends = {} /\ ~prefix)

\* ================================================ properties of SpecTimer
\* C23: while has_flush_wait is set in an execution mode, the loop is never
\* past last_ptm_flush + 500 ms between two handlers: its wait has that
\* time as its timeout and ends there with handle_ptm(b'', HIT_TIMER) unless
\* a PTY read or a control packet ends it before; and that timer flush
\* sends what is buffered (in IN_EXEC_TERMEMU, the screen) without further
\* input.
C23_NotPastDeadline ==
    (exc = "none" /\ has_flush_wait /\ term_state \in Exec) =>
        /\ pc = "wait" => timeout = last_ptm_flush + FlushDelay
        /\ pc \in {"top", "wait"} => now <= last_ptm_flush + FlushDelay

C23_TimerFlushSends ==
    (/\ exc = "none" /\ has_flush_wait /\ term_state \in Exec
     /\ pc \in {"top", "wait"} /\ nReads' = nReads /\ nCmds' = nCmds
     /\ pc' # "wait" /\ now' = now)
        => \/ Len(sent') > Len(sent)
           \/ term_state = IN_EXEC_DIRECT /\ pending_out = <<>>

C23_TimerFlush == []C23_NotPastDeadline /\ [][C23_TimerFlushSends]_vars

\* Text without a newline was read and buffered, nothing else arrived, and
\* 500 ms after the read the timer flush sent it.
C23_Witness ==
    /\ nReads = 1 /\ rawB = <<97>> /\ pc = "sending" /\ now = last_ptm_flush + FlushDelay
    /\ sent # <<>> /\ sent[Len(sent)].type = "DIRECT" /\ sent[Len(sent)].ft = HIT_TIMER

\* C38: handle_ptm terminates: every DIRECT message it sends has at least
\* one character, and what one call sends and leaves buffered is at most
\* what was buffered plus what was read, so the turns of its loop are
\* bounded by the bytes it has; and the loop of on_cmd_ptm does not spin on
\* the timer: a timer flush happens only with a deadline set and reached,
\* one that sends nothing clears has_flush_wait, one that sends sets
\* last_ptm_flush to the time the message was sent, and two timer flushes
\* with no PTY read and no control packet between them are at least
\* FlushDelay apart.
RECURSIVE DirectChars(_, _)
DirectChars(s, from) ==
    IF from > Len(s) THEN 0
    ELSE (IF s[from].type = "DIRECT" THEN Len(s[from].payload) ELSE 0)
         + DirectChars(s, from + 1)

IsTimerFlush ==
    /\ pc \in {"top", "wait"} /\ pc' # "wait"
    /\ nReads' = nReads /\ nCmds' = nCmds /\ now' = now

C38_TurnsBounded ==
    /\ \A i \in 1..Len(sent) : sent[i].type = "DIRECT" => Len(sent[i].payload) >= 1
    /\ (pc \in {"top", "wait"} /\ hitAt >= 0 /\ has_flush_wait /\ exc = "none")
          => last_ptm_flush >= hitAt

C38_CallStep ==
    /\ (term_state = IN_EXEC_DIRECT /\ term_state' = IN_EXEC_DIRECT /\ ep' = ep) =>
          DirectChars(sent', Len(sent) + 1) + Len(pending_out')
              <= Len(pending_out) + (Len(rawB') - Len(rawB))
    /\ IsTimerFlush =>
          /\ has_flush_wait /\ now >= last_ptm_flush + FlushDelay
          /\ hitAt >= 0 => now >= hitAt + FlushDelay
          /\ (sent' = sent /\ exc' = "none") => ~has_flush_wait'

C38_NoSpin == []C38_TurnsBounded /\ [][C38_CallStep]_vars

\* Two timer flushes in a row: the first sent the lines that were complete
\* and kept the rest with a new deadline, the second came FlushDelay after
\* the first was sent and sent the rest.
C38_Witness ==
    /\ Len(sent) >= 2 /\ hitAt >= FlushDelay /\ exc = "none"
    /\ sent[Len(sent)].type = "DIRECT" /\ sent[Len(sent)].ft = HIT_TIMER
    /\ sent[Len(sent) - 1].type = "DIRECT" /\ sent[Len(sent) - 1].ft = HIT_TIMER
    /\ pending_out = <<>> /\ ~has_flush_wait

\* ================================================ properties of SpecSplit
Untag(m) == [type |-> m.type, payload |-> m.payload]

\* the messages sent since the first part of the run was read
SentSinceSplit == [i \in 1..(Len(sent) - twin[1].at) |-> Untag(sent[twin[1].at + i])]

\* C17: in IN_EXEC_DIRECT, for every recognised SGR/OSC run R, every plain
\* text T and every split point k of R (k = Len(R): R as one read, then T
\* as the second), reading R[:k] and then R[k:] + T emits the same DIRECT
\* messages and leaves the same session state as reading R + T at once.
C17_SplitInvariant ==
    /\ (splitPc = "second") =>
          /\ exc = twin[1].exc
          /\ SentSinceSplit = twin[1].out
          /\ Core = twin[1].core
    /\ (splitPc = "first" /\ exc # "none") => exc = twin[1].exc

\* A run was split inside, the text after it came with its second part,
\* and that read sent the text before the run and the text after it as
\* DIRECT messages without the bytes of the run.
C17_Witness ==
    /\ splitPc = "second" /\ exc = "none" /\ term_state = IN_EXEC_DIRECT
    /\ splitIn[1].k < Len(splitIn[1].R) /\ splitIn[1].T = <<97, 97, 97>>
    /\ pending_out = <<97>>
    /\ SentSinceSplit = <<DirectMsg(<<97, 97>>), DirectMsg(<<97, 97>>)>>

\* =============================================== properties of SpecRender
\* the text before the first LF, and the text after it
RECURSIVE FirstLine(_)
FirstLine(p) ==
    IF p = <<>> \/ p[1] = LF THEN <<>> ELSE <<p[1]>> \o FirstLine(Tail(p))
AfterFirstLine(p) == SubSeq(p, Len(FirstLine(p)) + 2, Len(p))

\* the newline-terminated lines of p, and whether p consists of such lines
RECURSIVE LinesOf(_)
LinesOf(p) ==
    IF p = <<>> THEN <<>> ELSE <<FirstLine(p)>> \o LinesOf(AfterFirstLine(p))
NewlineTerminated(p) == p # <<>> /\ p[Len(p)] = LF

\* t is row without its trailing blanks
Trimmed(t, row) ==
    /\ Len(t) <= Len(row)
    /\ \A j \in 1..Len(row) : IF j <= Len(t) THEN t[j] = row[j] ELSE row[j] = SPACE
    /\ t # <<>> => t[Len(t)] # SPACE

RECURSIVE AcceptedData(_)
AcceptedData(w) ==
    IF w = <<>> THEN <<>>
    ELSE IF w[1].ret = "ok" THEN w[1].buf \o AcceptedData(Tail(w))
    ELSE AcceptedData(Tail(w))

\* C26: for one open of the upload file, release requests an upload exactly
\* when a byte was accepted, no write failed with EFBIG and the session is
\* still registered; the data is the accepted writes in order, at most the
\* limit; a write at a wrong offset fails with EINVAL and changes nothing;
\* a write after the session vanished fails with EIO.
C26_UploadContract ==
    /\ ufile.data = AcceptedData(wres) /\ Len(ufile.data) <= UploadLimit
    /\ \A i \in 1..Len(wres) :
          /\ ~wres[i].reg => wres[i].ret = "EIO"
          /\ (wres[i].reg /\ wres[i].offset # Len(wres[i].before))
                => wres[i].ret = "EINVAL"
          /\ wres[i].ret # "ok" => wres[i].after = wres[i].before
    /\ ufile.st = "released" =>
          /\ upl # <<>> <=> /\ AcceptedData(wres) # <<>>
                            /\ \A i \in 1..Len(wres) : wres[i].ret # "EFBIG"
                            /\ regAtRelease
          /\ upl # <<>> => upl = <<AcceptedData(wres)>>

\* a write at a wrong offset was refused between two accepted writes, and
\* the three bytes were handed to upload_cb on release
C26_Witness ==
    /\ ufile.st = "released" /\ upl = <<(<<1, 2, 3>>)>>
    /\ \E i \in 1..Len(wres) : wres[i].ret = "EINVAL"

\* C27: every access to the registry is made by a thread that holds the
\* registry mutex, and the FUSE worker never looks up an entry that the
\* session has removed since the worker tested for it.
C27_RegistryUnderMutex ==
    /\ \A a \in acclog : a.holder = a.by
    /\ ~keyErr

\* C28: when the command closed the upload file with accepted data before
\* the shell sent RESP_PROMPT, an UPLOAD message is written to the client
\* before the PROMPT message.
C28_UploadBeforePrompt ==
    \A i \in 1..Len(wlog) :
       (wlog[i].type = "PROMPT" /\ ufile.st # "open" /\ ReleaseWants(ufile))
          => \E j \in 1..(i - 1) : wlog[j].type = "UPLOAD"

\* ================================================= properties of SpecLife
\* ----------------------------------------------- properties of SpecLife
\* C11: after a sandbox-side death or disconnect the session ends, a new
\* session is started on the same connection and the client is not dropped:
\* while the client has sent nothing (and has not closed) since the restart,
\* the connection is not closed.
C11_ClientKeptAfterRestart == silent => lpc # "closed"

\* The session that launched its tasks has no descriptor of its own open
\* and no task pending.
SessionTornDown ==
    launched => /\ \A f \in OwnedFds : fd[f] # "open"
                /\ \A t \in TaskNames : ltasks[t] # "pending"

IdnameOk(s) == Len(s) \in 1..MaxIdLen /\ \A i \in 1..Len(s) : IsAlnum(s[i])

\* C14: a session gets past the handshake only with an INIT line whose
\* idname is 1 to 30 ASCII letters and digits; as long as no line was
\* accepted no directory is made, nothing is mounted, nothing is forked.
C14_HandshakeGate ==
    /\ \A l \in accepted : l.type = "INIT" /\ IdnameOk(l.idname)
    /\ accepted = {} => (fsOps = 0 /\ nFork = 0 /\ fd = NoFds)

\* C15: when the finally block of _run has run for a session that launched
\* its tasks, no task of the session is pending (write tasks and scheduler
\* tasks are all cancelled or done), the launcher got SIGKILL, the shell
\* SIGKILL and the helper SIGTERM if their pidfds exist, and every
\* descriptor the session owns is closed, by exactly one close; no
\* descriptor is ever closed twice.
C15_ClosedExactlyOnce ==
    /\ \A f \in FdNames : closes[f] <= 1
    /\ (launched /\ lpc \in {"unwind", "closed"}) =>
          /\ \A t \in AllTasks : ltasks[t] # "pending"
          /\ \A f \in OwnedFds : fd[f] # "none" => (fd[f] = "closed" /\ closes[f] = 1)
          /\ fd["bwrap_pidfd"] = "closed" /\ fd["cmdsock"] = "closed"
          /\ fd["ptm_fd"] = "closed"
          /\ sig["bwrap"] = "SIGKILL"
          /\ fd["bash_pidfd"] # "none" => sig["bash"] = "SIGKILL"
          /\ fd["slirp4netns_pidfd"] # "none" => sig["slirp4netns"] = "SIGTERM"

\* C29: a session remakes the container root of its identity exactly when
\* the directory is missing or INIT has reinit true; otherwise the start of
\* the session, and the shutdown on every path, leave the directory, the
\* mount and what the commands wrote there as they are.
C29_RecreatedIff ==
    (start.of = nComm /\ lpc # "rootfs")
       => (start.recreated <=> (start.reinit \/ ~start.existed))

C29_OnlyRecreateTouches ==
    (runExists' # runExists \/ overlay' # overlay) =>
       /\ \A id \in RunIds \ {start.id} :
             runExists'[id] = runExists[id] /\ overlay'[id] = overlay[id]
       /\ \/ lpc = "rootfs" /\ (start.reinit \/ ~start.existed)
          \/ /\ lpc = "live" /\ runExists' = runExists
             /\ overlay'[start.id].mounted = overlay[start.id].mounted

C29_RootPersists == []C29_RecreatedIff /\ [][C29_OnlyRecreateTouches]_vars

\* the second session of the connection starts without reinit on the
\* directory the first one made, and finds what the first one wrote
C29_Witness ==
    /\ nComm = 2 /\ start.of = 2 /\ ~start.reinit /\ start.existed
    /\ ~start.recreated /\ launched
    /\ overlay[start.id] = [mounted |-> TRUE, dirty |-> TRUE]

\* C25: the registry has the entry of a session exactly while its run() is
\* in progress, whichever way run() is left, and the FUSE path of a
\* session exists exactly when its entry is there.
C25_RegisteredWhileRunning ==
    /\ registry = IF lpc = "closed" THEN {} ELSE {nComm}
    /\ \A id \in 1..MaxSessions :
          ValidPath(registry, id) <=> (lpc # "closed" /\ id = nComm)

\* run() was left once by a restart and once by an exception after its
\* sandbox had been launched.
C25_Witness ==
    /\ lpc = "closed" /\ nComm = 2 /\ launched /\ registry = {}
    /\ ended.exc = "BotClosedException"

\* C16: when a failure of a set-up step has been handled (the connection is
\* closed), no descriptor of the session is open and no child of the session
\* runs without having been sent a signal.
C16_SetupFailureClean ==
    (failedAt # "none" /\ lpc = "closed") =>
        /\ \A f \in FdNames : fd[f] # "open"
        /\ \A c \in Children : child[c] = "running" => sig[c] # "none"

====
